---- MODULE Spec2Model ----
(***************************************************************************)
(* Overlay routing core of the broker: alm::peer (routing table, filter    *)
(* propagation, publication forwarding) and detail::core_policy (stream    *)
(* distribution policy).                                                   *)
(*                                                                         *)
(* Peer ids are naturals ordered by <; 0 is the default-constructed        *)
(* (invalid) id.  A communication handle is identified with the id of the  *)
(* neighbor it addresses.                                                  *)
(*                                                                         *)
(* A peer_id_list (std::vector<PeerId>) is kept run-length encoded: a      *)
(* sequence of runs <<id, n>>, n >= 1, adjacent runs having different ids. *)
(* The encoding is one-to-one with vectors; size, front, back, contains    *)
(* and emplace_back are computed on it exactly, and it lets the model hold *)
(* vectors of 65535 and 65536 elements.                                    *)
(***************************************************************************)
EXTENDS Integers, Sequences, FiniteSets, TLC

VARIABLES
  peers,    \* node id -> state of the alm::peer object of that node
  chan,     \* <<from, to>> -> FIFO of messages in flight on that link
  sent,     \* messages handed to send() by the last handler, in order
  shipped,  \* contents handed to ship_locally() by the last handler
  last,     \* the last handler invocation: its name, inputs and pre-state
  obs,      \* observations of the network run (deliveries, message counts)
  pol,      \* state of the core_policy object
  mp        \* a multipath under construction

vars == <<peers, chan, sent, shipped, last, obs, pol, mp>>

-----------------------------------------------------------------------------
(* Program constants *)

\* std::numeric_limits<uint16_t>::max()
U16Max == 65535

\* Stands for std::numeric_limits<size_t>::max(): larger than every distance
\* the table can hold (those are <= U16Max); TLC integers are 32 bit wide.
SizeMax == 2147483647

\* Default-constructed PeerId.
NilId == 0

\* distance_to's nil (no distance known).
Unreachable == 0

-----------------------------------------------------------------------------
(* Generic helpers *)

Max(a, b) == IF a > b THEN a ELSE b

RECURSIVE SortedSeq(_)
\* The elements of a finite set of integers in ascending order.
SortedSeq(S) ==
  IF S = {} THEN <<>>
  ELSE LET m == CHOOSE x \in S : \A y \in S : x <= y
       IN <<m>> \o SortedSeq(S \ {m})

SeqRange(s) == {s[i] : i \in DOMAIN s}

Restrict(f, S) == [x \in S |-> f[x]]

EmptyMap == [x \in {} |-> 0]

-----------------------------------------------------------------------------
(* peer_id_list *)

\* The vector holding exactly the ids of the sequence ids (no two adjacent
\* ones equal).
Vec(ids) == [i \in DOMAIN ids |-> <<ids[i], 1>>]

\* The vector of k copies of id followed by the ids of tail.
Rep(id, k, tail) == <<(<<id, k>>)>> \o Vec(tail)

RECURSIVE size(_)
size(path) ==
  IF path = <<>> THEN 0 ELSE path[1][2] + size(Tail(path))

empty(path) == path = <<>>

front(path) == path[1][1]

back(path) == path[Len(path)][1]

contains(ids, id) == \E i \in DOMAIN ids : ids[i][1] = id

emplace_back(path, id) ==
  IF path # <<>> /\ back(path) = id
  THEN [path EXCEPT ![Len(path)] = <<id, @[2] + 1>>]
  ELSE Append(path, <<id, 1>>)

\* No id occurs twice in the vector.
NoDuplicates(path) ==
  /\ \A i \in DOMAIN path : path[i][2] = 1
  /\ \A i, j \in DOMAIN path : i # j => path[i][1] # path[j][1]

-----------------------------------------------------------------------------
(* Routing table *)

\* Iteration order of the routing table: ascending peer id.
tbl_keys(tbl) == SortedSeq(DOMAIN tbl)

new_entry(hdl) == [hdl |-> hdl, distances |-> EmptyMap]

RECURSIVE first_distance(_, _, _)
\* Mutant of the loop: the first entry that knows the peer decides.
first_distance(tbl, keys, remote_peer) ==
  IF keys = <<>> THEN SizeMax
  ELSE LET d == tbl[Head(keys)].distances
       IN IF remote_peer \in DOMAIN d THEN d[remote_peer]
          ELSE first_distance(tbl, Tail(keys), remote_peer)

distance_to_first_entry(tbl, remote_peer) ==
  IF remote_peer \in DOMAIN tbl THEN 1
  ELSE LET distance == first_distance(tbl, tbl_keys(tbl), remote_peer)
       IN IF distance # SizeMax THEN distance ELSE Unreachable

RECURSIVE lowest_distance(_, _, _, _)
\* The loop of distance_to over tbl_: keeps the lowest distance found.
lowest_distance(tbl, keys, remote_peer, distance) ==
  IF keys = <<>> THEN distance
  ELSE LET d == tbl[Head(keys)].distances
       IN IF remote_peer \in DOMAIN d /\ d[remote_peer] < distance
          THEN lowest_distance(tbl, Tail(keys), remote_peer, d[remote_peer])
          ELSE lowest_distance(tbl, Tail(keys), remote_peer, distance)

distance_to(tbl, remote_peer) ==
  IF remote_peer \in DOMAIN tbl THEN 1
  ELSE LET distance == lowest_distance(tbl, tbl_keys(tbl), remote_peer,
                                       SizeMax)
       IN IF distance # SizeMax THEN distance ELSE Unreachable

-----------------------------------------------------------------------------
(* alm::peer *)

new_peer(id) ==
  [id |-> id, tbl |-> EmptyMap, ttl |-> 0, timestamp |-> 0,
   peer_timestamps |-> EmptyMap, filter |-> {}, peer_filters |-> EmptyMap]

\* What a handler returns: the peer afterwards, the messages it sent, the
\* contents it shipped locally, and whether it ran past its early returns.
Result(p, out, local, accepted) ==
  [peer |-> p, out |-> out, local |-> local, accepted |-> accepted]

SubscribeMsg(hdl, path, filter, timestamp) ==
  [type |-> "subscribe", to |-> hdl, path |-> path, filter |-> filter,
   ts |-> timestamp]

PublishMsg(hdl, msg) ==
  [type |-> "publish", to |-> hdl, content |-> msg.content, ttl |-> msg.ttl,
   receivers |-> msg.receivers]

\* Mutant: the update is forwarded to the peers on its path as well.
forward_subscription_unchecked(tbl, keys, path, filter, timestamp) ==
  [i \in DOMAIN keys |->
     SubscribeMsg(tbl[keys[i]].hdl, path, filter, timestamp)]

\* for (auto& [pid, entry] : tbl_) if (!contains(path, pid)) send(...)
forward_subscription(tbl, keys, path, filter, timestamp) ==
  LET pids == SelectSeq(keys, LAMBDA pid : ~contains(path, pid))
  IN [i \in DOMAIN pids |->
        SubscribeMsg(tbl[pids[i]].hdl, path, filter, timestamp)]

\* Mutant: the distance of the latest update replaces the recorded one.
update_distance_latest(tbl, last_hop, origin, distance) ==
  IF distance > 1
  THEN [tbl EXCEPT ![last_hop].distances =
                     (origin :> distance) @@ tbl[last_hop].distances]
  ELSE tbl

\* Mutant: a distance of 1 is recorded as well.
update_distance_of_neighbor(tbl, last_hop, origin, distance) ==
  LET ipaths == tbl[last_hop].distances
  IN IF origin \notin DOMAIN ipaths
     THEN [tbl EXCEPT ![last_hop].distances = (origin :> distance) @@ ipaths]
     ELSE IF ipaths[origin] > distance
          THEN [tbl EXCEPT ![last_hop].distances[origin] = distance]
          ELSE tbl

\* Update distance of indirect paths (the last hop's distances map).
update_distance(tbl, last_hop, origin, distance) ==
  IF distance > 1
  THEN LET ipaths == tbl[last_hop].distances
       IN IF origin \notin DOMAIN ipaths
          THEN [tbl EXCEPT ![last_hop].distances = (origin :> distance) @@ ipaths]
          ELSE IF ipaths[origin] > distance
               THEN [tbl EXCEPT ![last_hop].distances[origin] = distance]
               ELSE tbl
  ELSE tbl

\* Mutant: an equal timestamp refreshes the stored filter.
store_subscription_refresh_equal(p, subscriber, filter, timestamp) ==
  LET ts == IF subscriber \in DOMAIN p.peer_timestamps
            THEN p.peer_timestamps[subscriber] ELSE 0
  IN IF ts <= timestamp
     THEN [p EXCEPT
             !.peer_filters = (subscriber :> filter) @@ @,
             !.peer_timestamps = (subscriber :> timestamp) @@ @]
     ELSE [p EXCEPT !.peer_timestamps = (subscriber :> ts) @@ @]

\* Mutant: the timestamp of the update is stored whatever was stored before.
store_subscription_takes_any(p, subscriber, filter, timestamp) ==
  [p EXCEPT !.peer_filters = (subscriber :> filter) @@ @,
            !.peer_timestamps = (subscriber :> timestamp) @@ @]

\* Store the subscription if it's new.
store_subscription(p, subscriber, filter, timestamp) ==
  LET ts == IF subscriber \in DOMAIN p.peer_timestamps
            THEN p.peer_timestamps[subscriber] ELSE 0
  IN IF ts < timestamp
     THEN [p EXCEPT
             !.peer_filters = (subscriber :> filter) @@ @,
             !.peer_timestamps = (subscriber :> timestamp) @@ @]
     ELSE [p EXCEPT !.peer_timestamps = (subscriber :> ts) @@ @]

\* Mutant: the limit check is off by one.
exceeds_limit_off_by_one(distance) == distance >= U16Max

\* distance > std::numeric_limits<uint16_t>::max()
exceeds_limit(distance) == distance > U16Max

\* Mutant: the TTL is the distance of the latest accepted update.
handle_filter_update_ttl_latest(p, path, filter, timestamp) ==
  IF empty(path) \/ filter = {} THEN Result(p, <<>>, <<>>, FALSE)
  ELSE IF back(path) \notin DOMAIN p.tbl THEN Result(p, <<>>, <<>>, FALSE)
  ELSE IF contains(path, p.id) THEN Result(p, <<>>, <<>>, FALSE)
  ELSE
    LET distance == size(path) IN
    IF exceeds_limit(distance) THEN Result(p, <<>>, <<>>, FALSE)
    ELSE
      LET p1 == [p EXCEPT
                   !.ttl = distance % (U16Max + 1),
                   !.tbl = update_distance(@, back(path), front(path),
                                           distance)]
          path1 == emplace_back(path, p.id)
          out == forward_subscription(p1.tbl, tbl_keys(p1.tbl), path1,
                                      filter, timestamp)
      IN Result(store_subscription(p1, front(path1), filter, timestamp),
                out, <<>>, TRUE)

\* Mutant: the TTL is raised only by updates of indirect paths.
handle_filter_update_ttl_indirect(p, path, filter, timestamp) ==
  IF empty(path) \/ filter = {} THEN Result(p, <<>>, <<>>, FALSE)
  ELSE IF back(path) \notin DOMAIN p.tbl THEN Result(p, <<>>, <<>>, FALSE)
  ELSE IF contains(path, p.id) THEN Result(p, <<>>, <<>>, FALSE)
  ELSE
    LET distance == size(path) IN
    IF exceeds_limit(distance) THEN Result(p, <<>>, <<>>, FALSE)
    ELSE
      LET p1 == [p EXCEPT
                   !.ttl = IF distance > 1
                           THEN Max(@, distance % (U16Max + 1)) ELSE @,
                   !.tbl = update_distance(@, back(path), front(path),
                                           distance)]
          path1 == emplace_back(path, p.id)
          out == forward_subscription(p1.tbl, tbl_keys(p1.tbl), path1,
                                      filter, timestamp)
      IN Result(store_subscription(p1, front(path1), filter, timestamp),
                out, <<>>, TRUE)

\* Mutant: only an update with a new timestamp is forwarded.
handle_filter_update_forwards_new(p, path, filter, timestamp) ==
  IF empty(path) \/ filter = {} THEN Result(p, <<>>, <<>>, FALSE)
  ELSE IF back(path) \notin DOMAIN p.tbl THEN Result(p, <<>>, <<>>, FALSE)
  ELSE IF contains(path, p.id) THEN Result(p, <<>>, <<>>, FALSE)
  ELSE
    LET distance == size(path) IN
    IF exceeds_limit(distance) THEN Result(p, <<>>, <<>>, FALSE)
    ELSE
      LET p1 == [p EXCEPT
                   !.ttl = Max(@, distance % (U16Max + 1)),
                   !.tbl = update_distance(@, back(path), front(path),
                                           distance)]
          path1 == emplace_back(path, p.id)
          ts == IF front(path) \in DOMAIN p.peer_timestamps
                THEN p.peer_timestamps[front(path)] ELSE 0
          out == IF ts < timestamp
                 THEN forward_subscription(p1.tbl, tbl_keys(p1.tbl), path1,
                                           filter, timestamp)
                 ELSE <<>>
      IN Result(store_subscription(p1, front(path1), filter, timestamp),
                out, <<>>, TRUE)

handle_filter_update(p, path, filter, timestamp) ==
  IF empty(path) \/ filter = {} THEN Result(p, <<>>, <<>>, FALSE)
  ELSE IF back(path) \notin DOMAIN p.tbl THEN Result(p, <<>>, <<>>, FALSE)
  ELSE IF contains(path, p.id) THEN Result(p, <<>>, <<>>, FALSE)
  ELSE
    LET distance == size(path) IN
    IF exceeds_limit(distance) THEN Result(p, <<>>, <<>>, FALSE)
    ELSE
      LET p1 == [p EXCEPT
                   !.ttl = Max(@, distance % (U16Max + 1)),
                   !.tbl = update_distance(@, back(path), front(path),
                                           distance)]
          path1 == emplace_back(path, p.id)
          out == forward_subscription(p1.tbl, tbl_keys(p1.tbl), path1,
                                      filter, timestamp)
      IN Result(store_subscription(p1, front(path1), filter, timestamp),
                out, <<>>, TRUE)

-----------------------------------------------------------------------------
(* Topics and filters *)

\* A topic is a sequence of path segments; a filter is a set of topics.
prefix_of(x, t) == Len(x) <= Len(t) /\ SubSeq(t, 1, Len(x)) = x

\* detail::prefix_matcher
matches(filter, t) == \E x \in filter : prefix_of(x, t)

is_internal(t) == t # <<>> /\ t[1] = "<$>"

\* filter_extend(f, what, pred): the extended filter; it changed iff the
\* result differs from f.
filter_extend(f, what) == f \cup {x \in what : ~is_internal(x)}

-----------------------------------------------------------------------------
(* alm::peer, publish and subscribe functions *)

\* Mutant: only the first entry of the routing table is sent the update.
send_subscription_first_only(tbl, keys, path, filter, timestamp) ==
  IF keys = <<>> THEN <<>>
  ELSE <<SubscribeMsg(tbl[Head(keys)].hdl, path, filter, timestamp)>>

RECURSIVE send_subscription(_, _, _, _, _)
\* for (auto& kvp : tbl_) send(kvp.second.hdl, subscribe, path, filter_, ts)
send_subscription(tbl, keys, path, filter, timestamp) ==
  IF keys = <<>> THEN <<>>
  ELSE <<SubscribeMsg(tbl[Head(keys)].hdl, path, filter, timestamp)>>
       \o send_subscription(tbl, Tail(keys), path, filter, timestamp)

\* Mutant: the update goes out whether or not the filter changed.
subscribe_always(p, what) ==
  LET p1 == [p EXCEPT !.filter = filter_extend(@, what), !.timestamp = @ + 1]
  IN Result(p1,
            send_subscription(p1.tbl, tbl_keys(p1.tbl), Vec(<<p.id>>),
                              p1.filter, p1.timestamp),
            <<>>, TRUE)

subscribe(p, what) ==
  LET f1 == filter_extend(p.filter, what) IN
  IF f1 = p.filter THEN Result(p, <<>>, <<>>, FALSE)
  ELSE LET p1 == [p EXCEPT !.filter = f1, !.timestamp = @ + 1]
       IN Result(p1,
                 send_subscription(p1.tbl, tbl_keys(p1.tbl), Vec(<<p.id>>),
                                   p1.filter, p1.timestamp),
                 <<>>, TRUE)

RECURSIVE shortest_bucket_last_wins(_, _, _, _, _)
\* Mutant: on a tie the later entry replaces the earlier one.
shortest_bucket_last_wins(tbl, keys, x, bucket_name, distance) ==
  IF keys = <<>> THEN bucket_name
  ELSE LET k == Head(keys)
           d == tbl[k].distances
       IN IF x \in DOMAIN d /\ d[x] <= distance
          THEN shortest_bucket_last_wins(tbl, Tail(keys), x, k, d[x])
          ELSE shortest_bucket_last_wins(tbl, Tail(keys), x, bucket_name,
                                         distance)

RECURSIVE shortest_bucket(_, _, _, _, _)
\* The loop of get_bucket over tbl_: keeps the first entry with the lowest
\* distance; returns the bucket name (NilId when no entry knows x).
shortest_bucket(tbl, keys, x, bucket_name, distance) ==
  IF keys = <<>> THEN bucket_name
  ELSE LET k == Head(keys)
           d == tbl[k].distances
       IN IF x \in DOMAIN d /\ d[x] < distance
          THEN shortest_bucket(tbl, Tail(keys), x, k, d[x])
          ELSE shortest_bucket(tbl, Tail(keys), x, bucket_name, distance)

\* Mutant: the check for a direct connection is missing.
get_bucket_no_direct(tbl, x) ==
  shortest_bucket(tbl, tbl_keys(tbl), x, NilId, SizeMax)

\* The name of the bucket receiver x goes to, NilId if there is none.
get_bucket(tbl, x) ==
  IF x \in DOMAIN tbl THEN x
  ELSE shortest_bucket(tbl, tbl_keys(tbl), x, NilId, SizeMax)

RECURSIVE fill_buckets(_, _, _)
\* for (auto& receiver : get_receivers(msg)) bucket_ptr->emplace_back(receiver)
fill_buckets(tbl, receivers, buckets) ==
  IF receivers = <<>> THEN buckets
  ELSE LET r == Head(receivers)
           b == get_bucket(tbl, r)
       IN fill_buckets(tbl, Tail(receivers),
                       IF b = NilId THEN buckets
                       ELSE [buckets EXCEPT ![b] = Append(@, r)])

RECURSIVE send_buckets(_, _, _, _)
\* for (auto& [first_hop, entry] : buckets) if (!bucket.empty()) send(copy)
send_buckets(tbl, keys, buckets, msg) ==
  IF keys = <<>> THEN <<>>
  ELSE LET k == Head(keys)
           rest == send_buckets(tbl, Tail(keys), buckets, msg)
       IN IF buckets[k] # <<>>
          THEN <<PublishMsg(tbl[k].hdl, [msg EXCEPT !.receivers = buckets[k]])>>
               \o rest
          ELSE rest

\* ship(message_type&): the messages sent.
ship(p, msg) ==
  LET buckets == fill_buckets(p.tbl, msg.receivers,
                              [k \in DOMAIN p.tbl |-> <<>>])
  IN send_buckets(p.tbl, tbl_keys(p.tbl), buckets, msg)

RECURSIVE shortest_hop_latest(_, _, _, _, _)
\* Mutant: on a tie the later entry replaces the earlier one.
shortest_hop_latest(tbl, keys, receiver, hop_id, distance) ==
  IF keys = <<>> THEN hop_id
  ELSE LET peer_id == Head(keys)
           d == tbl[peer_id].distances
       IN IF receiver \in DOMAIN d /\ d[receiver] <= distance
          THEN shortest_hop_latest(tbl, Tail(keys), receiver, peer_id,
                                   d[receiver])
          ELSE shortest_hop_latest(tbl, Tail(keys), receiver, hop_id,
                                   distance)

RECURSIVE shortest_hop(_, _, _, _, _)
\* The loop of ship(data_msg, receiver) over tbl_: the entry with the
\* lowest distance, on a tie the one with the lower id; NilId (and with it
\* the default handle) when no entry knows the receiver.
shortest_hop(tbl, keys, receiver, hop_id, distance) ==
  IF keys = <<>> THEN hop_id
  ELSE LET peer_id == Head(keys)
           d == tbl[peer_id].distances
       IN IF /\ receiver \in DOMAIN d
             /\ \/ d[receiver] < distance
                \/ (d[receiver] = distance /\ peer_id < hop_id)
          THEN shortest_hop(tbl, Tail(keys), receiver, peer_id, d[receiver])
          ELSE shortest_hop(tbl, Tail(keys), receiver, hop_id, distance)

\* ship(data_message&, receiver): the messages sent.
ship_data(p, data_msg, receiver) ==
  LET msg == [content |-> data_msg, ttl |-> p.ttl, receivers |-> <<receiver>>]
      hop_id == shortest_hop(p.tbl, tbl_keys(p.tbl), receiver, NilId, SizeMax)
  IN IF receiver \in DOMAIN p.tbl
     THEN <<PublishMsg(p.tbl[receiver].hdl, msg)>>
     ELSE IF hop_id # NilId
     THEN <<PublishMsg(p.tbl[hop_id].hdl, msg)>>
     ELSE <<>>

\* Mutant: every peer with a stored filter is a receiver.
subscribers_unfiltered(p, topic) == DOMAIN p.peer_filters

\* The peers whose stored filter matches the topic.
subscribers(p, topic) ==
  {x \in DOMAIN p.peer_filters : matches(p.peer_filters[x], topic)}

\* Mutant: the message starts with the greatest TTL.
publish_greatest_ttl(p, content, receivers) ==
  IF receivers = <<>> THEN Result(p, <<>>, <<>>, FALSE)
  ELSE Result(p, ship(p, [content |-> content, ttl |-> U16Max,
                          receivers |-> receivers]),
              <<>>, TRUE)

\* publish(content); receivers lists the matching peers in the order the
\* iteration over the unordered peer_filters_ visits them.
publish(p, content, receivers) ==
  IF receivers = <<>> THEN Result(p, <<>>, <<>>, FALSE)
  ELSE Result(p, ship(p, [content |-> content, ttl |-> p.ttl,
                          receivers |-> receivers]),
              <<>>, TRUE)

\* Mutant: the TTL is not decremented.
decrement_ttl_skipped(ttl) == ttl

\* --get_unshared_ttl(msg) on a uint16_t
decrement_ttl(ttl) == (ttl - 1) % (U16Max + 1)

\* Mutant: nothing is removed.
remove_id_nothing(receivers, id) == receivers

\* std::remove + erase
remove_id(receivers, id) == SelectSeq(receivers, LAMBDA r : r # id)

handle_publication(p, msg) ==
  LET ttl == decrement_ttl(msg.ttl)
      receivers == remove_id(msg.receivers, p.id)
      local == IF receivers # msg.receivers THEN <<msg.content>> ELSE <<>>
  IN IF receivers # <<>>
     THEN IF ttl = 0 THEN Result(p, <<>>, local, FALSE)
          ELSE Result(p, ship(p, [content |-> msg.content, ttl |-> ttl,
                                  receivers |-> receivers]),
                      local, TRUE)
     ELSE Result(p, <<>>, local, FALSE)

\* Mutant: the filter of the removed peer is erased whatever the table says.
peer_removed_erases_always(p, peer_id) ==
  [p EXCEPT !.tbl = Restrict(@, DOMAIN @ \ {peer_id}),
            !.peer_filters = Restrict(@, DOMAIN @ \ {peer_id})]

\* peer_removed(peer_id, hdl); peer_disconnected does the same.
peer_removed(p, peer_id) ==
  LET tbl1 == Restrict(p.tbl, DOMAIN p.tbl \ {peer_id})
  IN IF distance_to(tbl1, peer_id) = Unreachable
     THEN [p EXCEPT !.tbl = tbl1,
                    !.peer_filters = Restrict(@, DOMAIN @ \ {peer_id})]
     ELSE [p EXCEPT !.tbl = tbl1]

peer_disconnected(p, peer_id) == peer_removed(p, peer_id)

\* The transport stores the new peer in the routing table.
add_peer(p, peer_id) ==
  [p EXCEPT !.tbl = (peer_id :> new_entry(peer_id)) @@ @]

-----------------------------------------------------------------------------
(* One peer driven by its handlers *)

\* The peer under study and the peers the transport may connect to it.
Self == 2

Neighbors == {1, 3}

Fa == {<<"a">>}

Fb == {<<"b">>}

DataOn(topic) == [kind |-> "data", topic |-> topic]

NoPeer == new_peer(NilId)

NoBrief == [op |-> "none", inp |-> <<>>, pre |-> NoPeer, accepted |-> FALSE]

NoCall == [op |-> "none", inp |-> <<>>, pre |-> NoPeer, accepted |-> FALSE,
           before |-> NoBrief]

\* The call without the call before it.
Brief(c) == [op |-> c.op, inp |-> c.inp, pre |-> c.pre,
             accepted |-> c.accepted]

InitPeer ==
  /\ peers = (Self :> new_peer(Self))
  /\ chan = EmptyMap
  /\ sent = <<>>
  /\ shipped = <<>>
  /\ last = NoCall
  /\ obs = <<>>
  /\ pol = <<>>
  /\ mp = <<>>

\* Handler op ran on Self with inputs inp and returned r; seen is what has
\* been observed of the run so far.
RanSeen(op, inp, r, before, seen) ==
  /\ peers' = [peers EXCEPT ![Self] = r.peer]
  /\ sent' = r.out
  /\ shipped' = r.local
  /\ last' = [op |-> op, inp |-> inp, pre |-> peers[Self],
              accepted |-> r.accepted, before |-> before]
  /\ obs' = seen
  /\ UNCHANGED <<chan, pol, mp>>

Ran(op, inp, r, before) == RanSeen(op, inp, r, before, obs)

Connect ==
  \E n \in Neighbors \ DOMAIN peers[Self].tbl :
    Ran("peer_connected", [id |-> n],
        Result(add_peer(peers[Self], n), <<>>, <<>>, TRUE), NoBrief)

Removed ==
  \E n \in Neighbors :
    Ran("peer_removed", [id |-> n],
        Result(peer_removed(peers[Self], n), <<>>, <<>>, TRUE), NoBrief)

Disconnected ==
  \E n \in Neighbors :
    Ran("peer_disconnected", [id |-> n],
        Result(peer_disconnected(peers[Self], n), <<>>, <<>>, TRUE), NoBrief)

FilterUpdate(Paths, Filters, Stamps, before) ==
  \E path \in Paths, filter \in Filters, ts \in Stamps :
    Ran("handle_filter_update",
        [path |-> path, filter |-> filter, ts |-> ts],
        handle_filter_update(peers[Self], path, filter, ts), before)

(* Filter updates: every way to be rejected, and the distance boundary. *)

UpdatePaths ==
  { <<>>, Vec(<<1>>), Vec(<<3>>), Vec(<<4>>), Vec(<<2>>),
    Vec(<<4, 1>>), Vec(<<4, 3>>), Vec(<<4, 2, 1>>), Vec(<<2, 3>>),
    Rep(4, 65534, <<1>>), Rep(4, 65535, <<1>>), Rep(4, 65535, <<2, 3>>) }

NextUpdate ==
  \/ Connect
  \/ Removed
  \/ FilterUpdate(UpdatePaths, {{}, Fa}, {1}, NoBrief)

SpecUpdate == InitPeer /\ [][NextUpdate]_vars

(* Filter updates: timestamps. *)

MaxTs == 2

NextStale ==
  \/ Connect
  \/ Removed
  \/ FilterUpdate({Vec(<<1>>), Vec(<<4, 1>>)}, {Fa, Fb}, 0..MaxTs,
                  Brief(last))

SpecStale == InitPeer /\ [][NextStale]_vars

-----------------------------------------------------------------------------
(* Properties of handle_filter_update *)

IsUpdate(c) == c.op = "handle_filter_update"

StoredTs(p, o) ==
  IF o \in DOMAIN p.peer_timestamps THEN p.peer_timestamps[o] ELSE 0

\* The acceptance condition as the specification words it.
WellFormedUpdate(p, path, filter) ==
  /\ path # <<>>
  /\ filter # {}
  /\ back(path) \in DOMAIN p.tbl
  /\ ~contains(path, p.id)
  /\ size(path) <= 65535

\* C4: handle_filter_update(path, filter, ts) is accepted iff path and filter
\* are non-empty, the last hop is a key of tbl, self.id does not occur in path
\* and len(path) <= 65535; an accepted update raises ttl to at least len(path)
\* and leaves a timestamp entry for the origin, a rejected one leaves tbl,
\* ttl, peer_filters and peer_timestamps unchanged and sends nothing.
C4_AcceptIffWellFormed ==
  IsUpdate(last) =>
    IF WellFormedUpdate(last.pre, last.inp.path, last.inp.filter)
    THEN /\ last.accepted
         /\ peers[Self].ttl >= size(last.inp.path)
         /\ front(last.inp.path) \in DOMAIN peers[Self].peer_timestamps
    ELSE /\ ~last.accepted
         /\ peers[Self] = last.pre
         /\ sent = <<>>

C4_Witness ==
  /\ IsUpdate(last)
  /\ size(last.inp.path) = 65535
  /\ last.accepted
  /\ peers[Self].ttl = 65535
  /\ last.pre.ttl < 65535

\* One accepted update replaces the stored filter iff its timestamp is
\* strictly greater than the stored one.
ReplacesOnlyIfNewer(c, post) ==
  LET o == front(c.inp.path)
      old == StoredTs(c.pre, o)
  IN IF c.inp.ts > old
     THEN /\ o \in DOMAIN post.peer_filters
          /\ post.peer_filters[o] = c.inp.filter
          /\ StoredTs(post, o) = c.inp.ts
     ELSE /\ post.peer_filters = c.pre.peer_filters
          /\ StoredTs(post, o) = old

\* Calls b then c are two accepted updates from the same origin with
\* different timestamps, the larger one above what was stored before b.
TwoUpdates(b, c) ==
  /\ IsUpdate(b) /\ b.accepted
  /\ IsUpdate(c) /\ c.accepted
  /\ front(b.inp.path) = front(c.inp.path)
  /\ b.inp.ts # c.inp.ts
  /\ StoredTs(b.pre, front(b.inp.path)) < Max(b.inp.ts, c.inp.ts)

\* C5: an accepted filter update from origin o with timestamp ts replaces
\* peer_filters[o] only if ts is strictly greater than peer_timestamps[o];
\* two updates from one origin with timestamps t1 < t2, delivered in either
\* order, leave the filter of t2 and peer_timestamps[o] = t2.
C5_StaleNeverOverwrites ==
  /\ (IsUpdate(last) /\ last.accepted) =>
       ReplacesOnlyIfNewer(last, peers[Self])
  /\ TwoUpdates(last.before, last) =>
       LET o == front(last.inp.path)
           newer == IF last.inp.ts > last.before.inp.ts
                    THEN last.inp ELSE last.before.inp
       IN /\ o \in DOMAIN peers[Self].peer_filters
          /\ peers[Self].peer_filters[o] = newer.filter
          /\ peers[Self].peer_timestamps[o] = newer.ts

\* The older update arrived after the newer one and changed nothing.
C5_Witness ==
  /\ TwoUpdates(last.before, last)
  /\ last.inp.ts < last.before.inp.ts
  /\ last.inp.ts > 0
  /\ last.inp.filter # last.before.inp.filter
  /\ peers[Self].peer_filters[front(last.inp.path)] = last.before.inp.filter

-----------------------------------------------------------------------------
(* Filter updates and the loss of neighbors. *)

RemovalPaths ==
  { Vec(<<1>>), Vec(<<3>>), Vec(<<1, 3>>), Vec(<<3, 1>>), Vec(<<4, 1>>),
    Vec(<<4, 3>>), Vec(<<2, 1>>) }

NextRemoval ==
  \/ Connect
  \/ Removed
  \/ Disconnected
  \/ FilterUpdate(RemovalPaths, {Fa}, {1, 2}, NoBrief)

SpecRemoval == InitPeer /\ [][NextRemoval]_vars

(* One peer: distances asked for among filter updates and removals. *)

DistancePaths ==
  { Vec(<<1>>), Vec(<<1, 3>>), Vec(<<4, 3>>), Vec(<<5, 4, 3>>),
    Vec(<<4, 5, 1>>), Vec(<<5, 1>>) }

DistanceTargets == {1, 3, 4, 5, 6}

\* distance_to(target) is called on Self; obs is what it returned.
DistanceTo ==
  \E target \in DistanceTargets :
    RanSeen("distance_to", [target |-> target],
            Result(peers[Self], <<>>, <<>>, TRUE), NoBrief,
            distance_to(peers[Self].tbl, target))

NextDistance ==
  \/ Connect
  \/ Removed
  \/ FilterUpdate(DistancePaths, {Fa}, {1}, NoBrief)
  \/ DistanceTo

SpecDistance == InitPeer /\ [][NextDistance]_vars

(* One peer: data messages shipped to one receiver. *)

DirectReceivers == {1, 3, 4, 5, 6}

DirectPaths ==
  { Vec(<<1>>), Vec(<<4, 1>>), Vec(<<4, 3>>), Vec(<<4, 5, 1>>),
    Vec(<<5, 4, 1>>), Vec(<<5, 3>>), Vec(<<1, 3>>) }

ShipData ==
  \E receiver \in DirectReceivers :
    Ran("ship_data", [content |-> DataOn(<<"a">>), receiver |-> receiver],
        Result(peers[Self],
               ship_data(peers[Self], DataOn(<<"a">>), receiver),
               <<>>, TRUE),
        NoBrief)

NextDirect ==
  \/ Connect
  \/ Removed
  \/ FilterUpdate(DirectPaths, {Fa}, {1}, NoBrief)
  \/ ShipData

SpecDirect == InitPeer /\ [][NextDirect]_vars

(* One peer: updates of many lengths, with the lengths seen written down. *)

LengthPaths ==
  { Vec(<<1>>), Vec(<<4, 1>>), Vec(<<4, 5, 1>>), Vec(<<4, 3>>),
    Vec(<<5, 4, 3>>), Vec(<<1, 3>>), Vec(<<2, 3>>),
    Rep(4, 65534, <<1>>), Rep(4, 65535, <<1>>) }

\* obs after an update with the given path returned r: the least length
\* above 1 among the accepted updates of each last hop and origin, and the
\* greatest length among all accepted updates.
SeenLengths(seen, r, path) ==
  IF r.accepted
  THEN LET k == <<back(path), front(path)>>
           n == size(path)
           least == IF n = 1 THEN seen.least
                    ELSE IF k \in DOMAIN seen.least
                    THEN (k :> IF seen.least[k] < n THEN seen.least[k] ELSE n)
                         @@ seen.least
                    ELSE (k :> n) @@ seen.least
       IN [least |-> least, longest |-> Max(seen.longest, n)]
  ELSE seen

InitLengths ==
  /\ peers = (Self :> new_peer(Self))
  /\ chan = EmptyMap
  /\ sent = <<>>
  /\ shipped = <<>>
  /\ last = NoCall
  /\ obs = [least |-> EmptyMap, longest |-> 0]
  /\ pol = <<>>
  /\ mp = <<>>

MeasuredUpdate ==
  \E path \in LengthPaths :
    \E r \in {handle_filter_update(peers[Self], path, Fa, 1)} :
      RanSeen("handle_filter_update",
              [path |-> path, filter |-> Fa, ts |-> 1], r, NoBrief,
              SeenLengths(obs, r, path))

\* peer_removed for a neighbor; what was written down for its entry goes
\* with the entry.
MeasuredRemoval ==
  \E n \in Neighbors :
    RanSeen("peer_removed", [id |-> n],
            Result(peer_removed(peers[Self], n), <<>>, <<>>, TRUE), NoBrief,
            [obs EXCEPT !.least =
               Restrict(@, {k \in DOMAIN @ : k[1] # n})])

NextLengths ==
  \/ Connect
  \/ MeasuredRemoval
  \/ MeasuredUpdate

SpecLengths == InitLengths /\ [][NextLengths]_vars

(* One peer: routing tables built by filter updates, then forwarding *)

RECURSIVE Orders(_)
\* The sequences that list every element of the finite set S once.
Orders(S) ==
  IF S = {} THEN {<<>>}
  ELSE UNION {{<<x>> \o o : o \in Orders(S \ {x})} : x \in S}

ShipPaths ==
  { Vec(<<1>>), Vec(<<3>>), Vec(<<4, 1>>), Vec(<<4, 3>>),
    Vec(<<4, 3, 1>>), Vec(<<4, 1, 3>>) }

ShipTtls == {0, 1, 2, U16Max}

ShipReceivers ==
  { <<>>, <<2>>, <<1>>, <<4>>, <<2, 4>>, <<2, 2, 1>>, <<4, 4>>,
    <<3, 1>>, <<1, 4, 6>>, <<4, 3, 1>> }

ShipTopics == { <<"a">>, <<"a", "x">>, <<"b">> }

NodeMessages(Ttls) ==
  [content : {DataOn(<<"a">>)}, ttl : Ttls, receivers : ShipReceivers]

Ship ==
  \E msg \in NodeMessages({1}) :
    Ran("ship", [msg |-> msg],
        Result(peers[Self], ship(peers[Self], msg), <<>>, TRUE), NoBrief)

HandlePublication ==
  \E msg \in NodeMessages(ShipTtls) :
    Ran("handle_publication", [msg |-> msg],
        handle_publication(peers[Self], msg), NoBrief)

Publish ==
  \E topic \in ShipTopics :
    \E receivers \in Orders(subscribers(peers[Self], topic)) :
      Ran("publish", [content |-> DataOn(topic), receivers |-> receivers],
          publish(peers[Self], DataOn(topic), receivers), NoBrief)

NextShip ==
  \/ Connect
  \/ Disconnected
  \/ FilterUpdate(ShipPaths, {Fa}, {1}, NoBrief)
  \/ Ship
  \/ HandlePublication
  \/ Publish

SpecShip == InitPeer /\ [][NextShip]_vars

(* One peer: local subscriptions and publications among filter updates. *)

LocalPaths == { Vec(<<1>>), Vec(<<3>>), Vec(<<4, 1>>) }

InternalTopic == <<"<$>", "x">>

SubscribeFilters == { {}, Fa, Fb, {InternalTopic}, Fa \cup {InternalTopic} }

\* The greatest timestamp among the accepted updates of each origin, after
\* the update with the given path and timestamp returned r.
AcceptedStamps(seen, r, path, ts) ==
  IF r.accepted
  THEN LET o == front(path)
           old == IF o \in DOMAIN seen THEN seen[o] ELSE 0
       IN (o :> Max(old, ts)) @@ seen
  ELSE seen

StampedUpdate ==
  \E path \in LocalPaths, ts \in 0..MaxTs :
    \E r \in {handle_filter_update(peers[Self], path, Fa, ts)} :
      RanSeen("handle_filter_update",
              [path |-> path, filter |-> Fa, ts |-> ts], r, NoBrief,
              AcceptedStamps(obs, r, path, ts))

Subscribe ==
  \E what \in SubscribeFilters :
    Ran("subscribe", [what |-> what], subscribe(peers[Self], what), NoBrief)

NextLocal ==
  \/ Connect
  \/ Removed
  \/ Disconnected
  \/ StampedUpdate
  \/ Subscribe
  \/ Publish

SpecLocal == InitPeer /\ [][NextLocal]_vars

-----------------------------------------------------------------------------
(* Properties of ship and handle_publication *)

Count(seq, x) == Cardinality({i \in DOMAIN seq : seq[i] = x})

\* r is a direct neighbor or recorded in some entry's distances.
Reachable(tbl, r) ==
  \/ r \in DOMAIN tbl
  \/ \E n \in DOMAIN tbl : r \in DOMAIN tbl[n].distances

\* The emitted copies whose receivers list holds r.
CopiesWith(r) == {i \in DOMAIN sent : r \in SeqRange(sent[i].receivers)}

\* C6: after ship(msg) every reachable receiver of msg is in the receivers
\* list of exactly one emitted copy (as often as in msg), unreachable ones in
\* none; at most one copy goes to each direct neighbor, none has an empty
\* receivers list, and a receiver that is a direct neighbor is in the copy sent
\* to that neighbor.
C6_ShipPartitionsReceivers ==
  last.op = "ship" =>
    LET tbl == last.pre.tbl
        recv == last.inp.msg.receivers
    IN /\ \A r \in SeqRange(recv) :
            IF Reachable(tbl, r)
            THEN /\ Cardinality(CopiesWith(r)) = 1
                 /\ \A i \in CopiesWith(r) :
                      /\ Count(sent[i].receivers, r) = Count(recv, r)
                      /\ r \in DOMAIN tbl => sent[i].to = tbl[r].hdl
            ELSE CopiesWith(r) = {}
       /\ \A i \in DOMAIN sent :
            /\ sent[i].receivers # <<>>
            /\ SeqRange(sent[i].receivers) \subseteq SeqRange(recv)
            /\ \E n \in DOMAIN tbl : sent[i].to = tbl[n].hdl
       /\ \A i, j \in DOMAIN sent : i # j => sent[i].to # sent[j].to

\* A direct, an indirect and an unreachable receiver; two copies leave.
C6_Witness ==
  /\ last.op = "ship"
  /\ last.inp.msg.receivers = <<1, 4, 6>>
  /\ 1 \in DOMAIN last.pre.tbl
  /\ Reachable(last.pre.tbl, 4)
  /\ ~Reachable(last.pre.tbl, 6)
  /\ Len(sent) = 2

\* The neighbors that record a distance to r.
Knowing(tbl, r) == {n \in DOMAIN tbl : r \in DOMAIN tbl[n].distances}

\* The neighbor the specification's first-hop rule names for r.
FirstHop(tbl, r) ==
  LET best == CHOOSE d \in {tbl[n].distances[r] : n \in Knowing(tbl, r)} :
                \A n \in Knowing(tbl, r) : d <= tbl[n].distances[r]
      ties == {n \in Knowing(tbl, r) : tbl[n].distances[r] = best}
  IN CHOOSE n \in ties : \A m \in ties : n <= m

\* C7: in ship(msg), a receiver that is not a direct neighbor goes to a
\* neighbor whose recorded distance to it is minimal, and among the neighbors
\* with that minimal distance to the one with the smallest peer id.
C7_FirstHopTieBreak ==
  last.op = "ship" =>
    LET tbl == last.pre.tbl
    IN \A r \in SeqRange(last.inp.msg.receivers) :
         (r \notin DOMAIN tbl /\ Knowing(tbl, r) # {}) =>
           /\ CopiesWith(r) # {}
           /\ \A i \in CopiesWith(r) : sent[i].to = tbl[FirstHop(tbl, r)].hdl

\* Both neighbors record the same distance to peer 4; the copy goes to 1.
C7_Witness ==
  /\ last.op = "ship"
  /\ last.inp.msg.receivers = <<4>>
  /\ Knowing(last.pre.tbl, 4) = {1, 3}
  /\ last.pre.tbl[1].distances[4] = last.pre.tbl[3].distances[4]
  /\ Len(sent) = 1
  /\ sent[1].to = 1

\* C8: every copy handle_publication forwards carries a TTL strictly smaller
\* than the TTL the message had on entry, for every TTL in 0..65535.
C8_TtlMonotone ==
  last.op = "handle_publication" =>
    \A i \in DOMAIN sent : sent[i].ttl < last.inp.msg.ttl

\* C9: a node message whose TTL is 0 on entry to handle_publication is
\* dropped: nothing is forwarded to any neighbor.
C9_ExpiredNeverForwarded ==
  (last.op = "handle_publication" /\ last.inp.msg.ttl = 0) => sent = <<>>

IsPublication(c) == c.op = "handle_publication"

\* The receivers of the handled message other than the peer itself.
OtherReceivers(c) ==
  SelectSeq(c.inp.msg.receivers, LAMBDA r : r # c.pre.id)

\* C11: when handle_publication decrements the TTL to 0 and receivers other
\* than self remain, nothing is sent to any neighbor; if self was among the
\* receivers the content is still shipped locally.
C11_ExpiredInFlight ==
  ( /\ IsPublication(last)
    /\ last.inp.msg.ttl = 1
    /\ OtherReceivers(last) # <<>> )
  => /\ sent = <<>>
     /\ last.pre.id \in SeqRange(last.inp.msg.receivers) =>
          shipped = <<last.inp.msg.content>>

\* TTL 1 on entry, receivers self and the reachable peer 4: shipped locally,
\* not forwarded.
C11_Witness ==
  /\ IsPublication(last)
  /\ last.inp.msg.ttl = 1
  /\ last.inp.msg.receivers = <<2, 4>>
  /\ Reachable(last.pre.tbl, 4)
  /\ shipped = <<last.inp.msg.content>>
  /\ sent = <<>>

\* C12: handle_publication ships the content locally iff self.id occurs in
\* the receivers of the message, and then once, however often it occurs; the
\* receivers of every copy it forwards do not contain self.id; and when no
\* receiver other than self remains nothing is sent.
C12_LocalDeliveryOnce ==
  IsPublication(last) =>
    /\ shipped = IF last.pre.id \in SeqRange(last.inp.msg.receivers)
                 THEN <<last.inp.msg.content>> ELSE <<>>
    /\ \A i \in DOMAIN sent :
         last.pre.id \notin SeqRange(sent[i].receivers)
    /\ OtherReceivers(last) = <<>> => sent = <<>>

\* Self occurs twice among the receivers: one local delivery, and the copy
\* for neighbor 1 names only peer 1.
C12_Witness ==
  /\ IsPublication(last)
  /\ last.inp.msg.receivers = <<2, 2, 1>>
  /\ shipped = <<last.inp.msg.content>>
  /\ Len(sent) = 1
  /\ sent[1].receivers = <<1>>

-----------------------------------------------------------------------------
(* detail::core_policy *)

\* caf::invalid_stream_slot
InvalidSlot == 0

\* topics::clone_suffix
clone_suffix == <<"data", "clone">>

CommandOn(topic) == [kind |-> "command", topic |-> topic]

new_policy(forward) ==
  [forward |-> forward,            \* state_->options.forward
   blocked_peers |-> {},
   blocked_msgs |-> EmptyMap,      \* peer -> buffered batches, oldest first
   peer_to_ipath |-> EmptyMap, ipath_to_peer |-> EmptyMap,
   peer_to_opath |-> EmptyMap, opath_to_peer |-> EmptyMap,
   num_workers |-> 0,              \* workers().num_paths()
   num_stores |-> 0,               \* stores().num_paths()
   buf |-> <<>>,                   \* central buffer of the peers() manager
   active_sender |-> NilId,        \* peers().selector().active_sender
   shutting_down |-> FALSE,        \* state_->shutting_down
   cache |-> EmptyMap,             \* state_->cache: peer -> retry interval
   exit_reason |-> "none"]         \* the reason the task quit with, if it did

\* What the policy hands on: items placed on outbound peer paths, contents
\* pushed to workers or stores, node messages pushed to the peers() manager,
\* status messages emitted and reconnects scheduled.
NoOutput ==
  [placed |-> <<>>, local |-> <<>>, pushed |-> <<>>, status |-> <<>>,
   retry |-> <<>>]

Joined(a, b) ==
  [placed |-> a.placed \o b.placed, local |-> a.local \o b.local,
   pushed |-> a.pushed \o b.pushed, status |-> a.status \o b.status,
   retry |-> a.retry \o b.retry]

Effect(c, output) == [pol |-> c, output |-> output]

ends_with(str, ending) ==
  IF Len(ending) > Len(str) THEN FALSE
  ELSE SubSeq(str, Len(str) - Len(ending) + 1, Len(str)) = ending

\* The selector of the peers() manager: a buffered item goes to every
\* outbound peer path but the one of the active sender.
selected(active_sender, peer) == peer # active_sender

RECURSIVE flush_to_paths(_, _, _)
flush_to_paths(c, slots, item) ==
  IF slots = <<>> THEN <<>>
  ELSE LET peer == c.opath_to_peer[Head(slots)]
           rest == flush_to_paths(c, Tail(slots), item)
       IN IF selected(c.active_sender, peer)
          THEN <<[to |-> peer, msg |-> item]>> \o rest
          ELSE rest

RECURSIVE flush_items(_, _)
flush_items(c, items) ==
  IF items = <<>> THEN <<>>
  ELSE flush_to_paths(c, SortedSeq(DOMAIN c.opath_to_peer), Head(items))
       \o flush_items(c, Tail(items))

\* peers().fan_out_flush(): moves the central buffer to the paths' caches.
fan_out_flush(c) ==
  Effect([c EXCEPT !.buf = <<>>],
         [NoOutput EXCEPT !.placed = flush_items(c, c.buf)])

\* Mutant: the sender filter is set before the buffer is flushed.
before_handle_batch_flush_late(c, hdl) ==
  fan_out_flush([c EXCEPT !.active_sender = hdl])

before_handle_batch(c, hdl) ==
  LET f == fan_out_flush([c EXCEPT !.active_sender = NilId])
  IN Effect([f.pol EXCEPT !.active_sender = hdl], f.output)

after_handle_batch(c) ==
  LET f == fan_out_flush(c)
  IN Effect([f.pol EXCEPT !.active_sender = NilId], f.output)

\* if (--msg.ttl == 0) continue: the TTL the message is forwarded with, if any.
forward_ttl(ttl) ==
  IF decrement_ttl(ttl) = 0 THEN <<>> ELSE <<decrement_ttl(ttl)>>

\* Mutant: the forward option is looked at before the local dispatch.
handle_node_message_forward_first(c, msg) ==
  LET t == msg.content.topic
      local == IF ~c.forward THEN <<>>
               ELSE IF msg.content.kind = "data"
               THEN IF c.num_workers > 0
                    THEN <<[to |-> "workers", content |-> msg.content]>>
                    ELSE <<>>
               ELSE IF c.num_stores > 0
                    THEN <<[to |-> "stores", content |-> msg.content]>>
                    ELSE <<>>
      pushed == IF ~c.forward THEN <<>>
                ELSE IF ends_with(t, clone_suffix) THEN <<>>
                ELSE [i \in DOMAIN forward_ttl(msg.ttl) |->
                        [msg EXCEPT !.ttl = forward_ttl(msg.ttl)[i]]]
  IN [NoOutput EXCEPT !.local = local, !.pushed = pushed]

\* One node message of a peer batch: what goes to workers or stores, and what
\* is pushed to peers().
handle_node_message(c, msg) ==
  LET t == msg.content.topic
      local == IF msg.content.kind = "data"
               THEN IF c.num_workers > 0
                    THEN <<[to |-> "workers", content |-> msg.content]>>
                    ELSE <<>>
               ELSE IF c.num_stores > 0
                    THEN <<[to |-> "stores", content |-> msg.content]>>
                    ELSE <<>>
      pushed == IF ~c.forward THEN <<>>
                ELSE IF ends_with(t, clone_suffix) THEN <<>>
                ELSE [i \in DOMAIN forward_ttl(msg.ttl) |->
                        [msg EXCEPT !.ttl = forward_ttl(msg.ttl)[i]]]
  IN [NoOutput EXCEPT !.local = local, !.pushed = pushed]

RECURSIVE handle_node_messages(_, _)
handle_node_messages(c, msgs) ==
  IF msgs = <<>> THEN NoOutput
  ELSE Joined(handle_node_message(c, Head(msgs)),
              handle_node_messages(c, Tail(msgs)))

\* Mutant: a batch from a blocked peer is put in front of the buffered ones.
handle_batch_in_front(c, peer, xs) ==
  IF peer \in c.blocked_peers
  THEN LET bmsgs == IF peer \in DOMAIN c.blocked_msgs
                    THEN c.blocked_msgs[peer] ELSE <<>>
       IN Effect([c EXCEPT !.blocked_msgs = (peer :> <<xs>> \o bmsgs) @@ @],
                 NoOutput)
  ELSE LET out == handle_node_messages(c, xs)
       IN Effect([c EXCEPT !.buf = @ \o out.pushed], out)

\* handle_batch for a peer batch xs from peer.
handle_batch(c, peer, xs) ==
  IF peer \in c.blocked_peers
  THEN LET bmsgs == IF peer \in DOMAIN c.blocked_msgs
                    THEN c.blocked_msgs[peer] ELSE <<>>
       IN Effect([c EXCEPT !.blocked_msgs = (peer :> Append(bmsgs, xs)) @@ @],
                 NoOutput)
  ELSE LET out == handle_node_messages(c, xs)
       IN Effect([c EXCEPT !.buf = @ \o out.pushed], out)

\* The stream manager's handling of one inbound batch:
\* before_handle_batch, handle_batch, after_handle_batch.
deliver_batch(c, peer, xs) ==
  LET b == before_handle_batch(c, peer)
      h == handle_batch(b.pol, peer, xs)
      a == after_handle_batch(h.pol)
  IN Effect(a.pol, Joined(Joined(b.output, h.output), a.output))

block_peer(c, peer) == [c EXCEPT !.blocked_peers = @ \cup {peer}]

RECURSIVE replay_newest_first(_, _, _)
\* Mutant: the buffered batches are replayed newest first.
replay_newest_first(c, peer, batches) ==
  IF batches = <<>> THEN Effect(c, NoOutput)
  ELSE LET d == deliver_batch(c, peer, batches[Len(batches)])
           r == replay_newest_first(d.pol, peer,
                                    SubSeq(batches, 1, Len(batches) - 1))
       IN Effect(r.pol, Joined(d.output, r.output))

RECURSIVE replay(_, _, _)
replay(c, peer, batches) ==
  IF batches = <<>> THEN Effect(c, NoOutput)
  ELSE LET d == deliver_batch(c, peer, Head(batches))
           r == replay(d.pol, peer, Tail(batches))
       IN Effect(r.pol, Joined(d.output, r.output))

\* Mutant: the buffered batches are replayed whether or not the inbound path
\* is still there.
unblock_peer_replays_always(c, peer) ==
  LET c1 == [c EXCEPT !.blocked_peers = @ \ {peer}]
  IN IF peer \notin DOMAIN c1.blocked_msgs THEN Effect(c1, NoOutput)
     ELSE LET r == replay(c1, peer, c1.blocked_msgs[peer])
          IN Effect([r.pol EXCEPT
                       !.blocked_msgs = Restrict(@, DOMAIN @ \ {peer})],
                    r.output)

unblock_peer(c, peer) ==
  LET c1 == [c EXCEPT !.blocked_peers = @ \ {peer}]
      erased == [c1 EXCEPT
                   !.blocked_msgs = Restrict(@, DOMAIN @ \ {peer})]
  IN IF peer \notin DOMAIN c1.blocked_msgs THEN Effect(c1, NoOutput)
     ELSE IF peer \notin DOMAIN c1.peer_to_ipath THEN Effect(erased, NoOutput)
     ELSE LET r == replay(c1, peer, c1.blocked_msgs[peer])
          IN Effect([r.pol EXCEPT
                       !.blocked_msgs = Restrict(@, DOMAIN @ \ {peer})],
                    r.output)

add_ipath(c, slot, peer_hdl) ==
  IF slot = InvalidSlot THEN c
  ELSE IF slot \in DOMAIN c.ipath_to_peer THEN c
  ELSE LET c1 == [c EXCEPT !.ipath_to_peer = (slot :> peer_hdl) @@ @]
       IN IF peer_hdl \in DOMAIN c1.peer_to_ipath THEN c1
          ELSE [c1 EXCEPT !.peer_to_ipath = (peer_hdl :> slot) @@ @]

add_opath(c, slot, peer_hdl) ==
  IF slot = InvalidSlot THEN c
  ELSE IF slot \in DOMAIN c.opath_to_peer THEN c
  ELSE LET c1 == [c EXCEPT !.opath_to_peer = (slot :> peer_hdl) @@ @]
       IN IF peer_hdl \in DOMAIN c1.peer_to_opath THEN c1
          ELSE [c1 EXCEPT !.peer_to_opath = (peer_hdl :> slot) @@ @]

\* The slots the stream manager hands out: one per peer and direction, never
\* the invalid slot and never one that is in use for another path.
inbound_slot(peer_hdl) == 2 * peer_hdl

outbound_slot(peer_hdl) == 2 * peer_hdl + 1

\* ack_peering: parent_->add_unchecked_inbound_path hands out the slot.
ack_peering(c, peer_hdl) ==
  IF peer_hdl \in DOMAIN c.peer_to_ipath THEN c
  ELSE add_ipath(c, inbound_slot(peer_hdl), peer_hdl)

add_worker(c) == [c EXCEPT !.num_workers = @ + 1]

\* state_->options.ttl
options_ttl == 20

\* peers().emit_batches(): with credit on the outbound paths the central
\* buffer moves to the paths' caches, without credit it stays.
emit_batches(c, credit) ==
  IF credit THEN fan_out_flush(c) ELSE Effect(c, NoOutput)

\* remote_push(msg): peers().push(msg); peers().emit_batches()
remote_push(c, msg, credit) ==
  LET e == emit_batches([c EXCEPT !.buf = Append(@, msg)], credit)
  IN Effect(e.pol, [e.output EXCEPT !.pushed = <<msg>>])

\* push(data_message) and push(command_message)
push(c, content, credit) ==
  remote_push(c, [content |-> content, ttl |-> options_ttl], credit)

add_store(c) == [c EXCEPT !.num_stores = @ + 1]

\* Mutant: the shutdown flag is not looked at.
peer_lost_ignores_shutdown(c, hdl) ==
  LET lost == [NoOutput EXCEPT
                 !.status = <<[code |-> "peer_lost", peer |-> hdl]>>]
  IN IF hdl \notin DOMAIN c.cache THEN lost
     ELSE IF c.cache[hdl] = 0 THEN lost
     ELSE [lost EXCEPT !.retry = <<[peer |-> hdl, after |-> c.cache[hdl]]>>]

\* core_policy::peer_lost: the status, and the reconnect if one is wanted.
peer_lost(c, hdl) ==
  LET lost == [NoOutput EXCEPT
                 !.status = <<[code |-> "peer_lost", peer |-> hdl]>>]
  IN IF c.shutting_down THEN lost
     ELSE IF hdl \notin DOMAIN c.cache THEN lost
     ELSE IF c.cache[hdl] = 0 THEN lost
     ELSE [lost EXCEPT !.retry = <<[peer |-> hdl, after |-> c.cache[hdl]]>>]

\* core_policy::peer_removed
status_peer_removed(hdl) ==
  [NoOutput EXCEPT !.status = <<[code |-> "peer_removed", peer |-> hdl]>>]

\* void shutting_down(bool value)
set_shutting_down(c, value) == [c EXCEPT !.shutting_down = value]

\* Mutant: a removal while shutting down quits the task whatever outbound
\* paths remain.
remove_peer_quits_early(c, hdl, graceful_removal, credit) ==
  LET has_opath == hdl \in DOMAIN c.peer_to_opath
      has_ipath == hdl \in DOMAIN c.peer_to_ipath
      c1 == IF has_opath
            THEN [c EXCEPT
                    !.opath_to_peer =
                       Restrict(@, DOMAIN @ \ {c.peer_to_opath[hdl]}),
                    !.peer_to_opath = Restrict(@, DOMAIN @ \ {hdl})]
            ELSE c
      c2 == IF has_ipath
            THEN [c1 EXCEPT
                    !.ipath_to_peer =
                       Restrict(@, DOMAIN @ \ {c.peer_to_ipath[hdl]}),
                    !.peer_to_ipath = Restrict(@, DOMAIN @ \ {hdl})]
            ELSE c1
      performed_erases ==
        (IF has_opath THEN 1 ELSE 0) + (IF has_ipath THEN 1 ELSE 0)
      told == IF graceful_removal THEN status_peer_removed(hdl)
              ELSE peer_lost(c2, hdl)
      c3 == [c2 EXCEPT !.cache = Restrict(@, DOMAIN @ \ {hdl})]
  IN IF performed_erases = 0 THEN Effect(c, NoOutput)
     ELSE IF c3.shutting_down
     THEN Effect([c3 EXCEPT !.exit_reason = "user_shutdown"], told)
     ELSE LET e == emit_batches(c3, credit)
          IN Effect(e.pol, Joined(told, e.output))

\* remove_peer(hdl, reason, silent, graceful_removal); parent_->push() lets
\* the manager emit what its buffer holds, if the paths have credit.
remove_peer(c, hdl, graceful_removal, credit) ==
  LET has_opath == hdl \in DOMAIN c.peer_to_opath
      has_ipath == hdl \in DOMAIN c.peer_to_ipath
      c1 == IF has_opath
            THEN [c EXCEPT
                    !.opath_to_peer =
                       Restrict(@, DOMAIN @ \ {c.peer_to_opath[hdl]}),
                    !.peer_to_opath = Restrict(@, DOMAIN @ \ {hdl})]
            ELSE c
      c2 == IF has_ipath
            THEN [c1 EXCEPT
                    !.ipath_to_peer =
                       Restrict(@, DOMAIN @ \ {c.peer_to_ipath[hdl]}),
                    !.peer_to_ipath = Restrict(@, DOMAIN @ \ {hdl})]
            ELSE c1
      performed_erases ==
        (IF has_opath THEN 1 ELSE 0) + (IF has_ipath THEN 1 ELSE 0)
      told == IF graceful_removal THEN status_peer_removed(hdl)
              ELSE peer_lost(c2, hdl)
      c3 == [c2 EXCEPT !.cache = Restrict(@, DOMAIN @ \ {hdl})]
  IN IF performed_erases = 0 THEN Effect(c, NoOutput)
     ELSE IF c3.shutting_down /\ DOMAIN c3.peer_to_opath = {}
     THEN Effect([c3 EXCEPT !.exit_reason = "user_shutdown"], told)
     ELSE LET e == emit_batches(c3, credit)
          IN Effect(e.pol, Joined(told, e.output))

\* What remove_peer returns: performed_erases != 0.
remove_peer_result(c, hdl) ==
  LET performed_erases ==
        (IF hdl \in DOMAIN c.peer_to_opath THEN 1 ELSE 0)
        + (IF hdl \in DOMAIN c.peer_to_ipath THEN 1 ELSE 0)
  IN performed_erases # 0

\* remove_cb for path_closed and path_force_closed
path_closed(c, slot, credit) ==
  IF slot \notin DOMAIN c.ipath_to_peer THEN Effect(c, NoOutput)
  ELSE remove_peer(c, c.ipath_to_peer[slot], FALSE, credit)

\* remove_cb for path_dropped and path_force_dropped
path_dropped(c, slot, credit) ==
  IF slot \notin DOMAIN c.opath_to_peer THEN Effect(c, NoOutput)
  ELSE remove_peer(c, c.opath_to_peer[slot], FALSE, credit)

ack_open_failure(c, slot, credit) ==
  IF slot \notin DOMAIN c.opath_to_peer THEN Effect(c, NoOutput)
  ELSE remove_peer(c, c.opath_to_peer[slot], FALSE, credit)

-----------------------------------------------------------------------------
(* The policy driven by its callbacks *)

PolicyPeers == {1, 3}

\* Most batches buffered for blocked peers, most worker and store paths.
MaxBlocked == 2

MaxLocalPaths == 1

Batches ==
  { <<[content |-> DataOn(<<"a">>), ttl |-> 0]>>,
    <<[content |-> DataOn(<<"a">>), ttl |-> 2]>>,
    <<[content |-> CommandOn(<<"s", "data", "clone">>), ttl |-> 2]>>,
    <<[content |-> DataOn(<<"a">>), ttl |-> 1],
      [content |-> CommandOn(<<"s">>), ttl |-> 2]>> }

InitPolicy ==
  /\ peers = EmptyMap
  /\ chan = EmptyMap
  /\ sent = <<>>
  /\ shipped = <<>>
  /\ last = NoCall
  /\ obs = [pushed |-> <<>>, status |-> <<>>, retry |-> <<>>]
  /\ mp = <<>>
  /\ \E forward \in BOOLEAN : pol = new_policy(forward)

\* Callback op ran with inputs inp, had effect r and returned ret.
PolicyReturned(op, inp, r, ret) ==
  /\ pol.exit_reason = "none"
  /\ pol' = r.pol
  /\ sent' = r.output.placed
  /\ shipped' = r.output.local
  /\ obs' = [pushed |-> r.output.pushed, status |-> r.output.status,
             retry |-> r.output.retry]
  /\ last' = [op |-> op, inp |-> inp, pre |-> pol, accepted |-> ret,
              before |-> NoBrief]
  /\ UNCHANGED <<peers, chan, mp>>

\* Callback op ran with inputs inp and had effect r.
PolicyRan(op, inp, r) == PolicyReturned(op, inp, r, TRUE)

AckPeering ==
  \E h \in PolicyPeers :
    PolicyRan("ack_peering", [peer |-> h],
              Effect(ack_peering(pol, h), NoOutput))

AddOpath ==
  \E h \in PolicyPeers \ DOMAIN pol.peer_to_opath :
    PolicyRan("add_opath", [peer |-> h],
              Effect(add_opath(pol, outbound_slot(h), h), NoOutput))

AddWorker ==
  /\ pol.num_workers < MaxLocalPaths
  /\ PolicyRan("add_worker", <<>>, Effect(add_worker(pol), NoOutput))

AddStore ==
  /\ pol.num_stores < MaxLocalPaths
  /\ PolicyRan("add_store", <<>>, Effect(add_store(pol), NoOutput))

BlockPeer ==
  \E h \in PolicyPeers :
    PolicyRan("block_peer", [peer |-> h], Effect(block_peer(pol, h), NoOutput))

UnblockPeer ==
  \E h \in PolicyPeers :
    PolicyRan("unblock_peer", [peer |-> h], unblock_peer(pol, h))

\* Most node messages waiting in the central buffer.
MaxQueued == 1

\* A message published on this node is pushed to the peers.
Push ==
  \E credit \in BOOLEAN :
    /\ Len(pol.buf) < MaxQueued
    /\ PolicyRan("push", [content |-> DataOn(<<"l">>), credit |-> credit],
                 push(pol, DataOn(<<"l">>), credit))

\* The batches buffered for peer h.
Buffered(c, h) ==
  IF h \in DOMAIN c.blocked_msgs THEN c.blocked_msgs[h] ELSE <<>>

RECURSIVE BufferedTotal(_, _)
\* The number of batches buffered for the peers of S.
BufferedTotal(c, S) ==
  IF S = {} THEN 0
  ELSE LET h == CHOOSE x \in S : TRUE
       IN Len(c.blocked_msgs[h]) + BufferedTotal(c, S \ {h})

\* A peer batch, one of batches, arrives on the inbound path of peer h while
\* fewer than most batches are buffered.
HandleBatchOf(batches, most) ==
  \E h \in DOMAIN pol.peer_to_ipath, xs \in batches :
    /\ BufferedTotal(pol, DOMAIN pol.blocked_msgs) < most
    /\ PolicyRan("handle_batch", [peer |-> h, batch |-> xs],
                 deliver_batch(pol, h, xs))

HandleBatch == HandleBatchOf(Batches, MaxBlocked)

NextPolicy ==
  \/ AckPeering
  \/ AddOpath
  \/ AddWorker
  \/ AddStore
  \/ BlockPeer
  \/ UnblockPeer
  \/ HandleBatch

SpecPolicy == InitPolicy /\ [][NextPolicy]_vars

(* Peer batches interleaved with messages published on this node. *)

NextSelector ==
  \/ AckPeering
  \/ AddOpath
  \/ BlockPeer
  \/ UnblockPeer
  \/ HandleBatch
  \/ Push

SpecSelector == InitPolicy /\ [][NextSelector]_vars

(* Peers that come, go and come back, and the shutdown of the task. *)

\* The retry interval of a cached peer that is to be reconnected.
RetrySecs == 10

\* Most batches buffered for blocked peers while peers come and go.
MaxKept == 1

LifecycleBatches ==
  { <<[content |-> DataOn(<<"a">>), ttl |-> 2]>>,
    <<[content |-> DataOn(<<"a">>), ttl |-> 1],
      [content |-> CommandOn(<<"s">>), ttl |-> 2]>> }

\* With nothing in the central buffer, credit makes no difference.
Credits(c) == IF c.buf = <<>> THEN {TRUE} ELSE BOOLEAN

\* The slots a close, drop or failed open is reported for.
PeerSlots ==
  {inbound_slot(h) : h \in PolicyPeers} \cup
  {outbound_slot(h) : h \in PolicyPeers}

\* The peers were entered into the cache when the peerings were started:
\* peer 1 without retry, peer 3 with one; or the cache is empty.
InitLifecycle ==
  /\ peers = EmptyMap
  /\ chan = EmptyMap
  /\ sent = <<>>
  /\ shipped = <<>>
  /\ last = NoCall
  /\ obs = [pushed |-> <<>>, status |-> <<>>, retry |-> <<>>]
  /\ mp = <<>>
  /\ \E cache \in {EmptyMap, (1 :> 0) @@ (3 :> RetrySecs)} :
       pol = [new_policy(TRUE) EXCEPT !.cache = cache]

RemovePeer ==
  \E h \in PolicyPeers, graceful_removal \in BOOLEAN,
     credit \in Credits(pol) :
    PolicyReturned("remove_peer",
                   [peer |-> h, graceful_removal |-> graceful_removal],
                   remove_peer(pol, h, graceful_removal, credit),
                   remove_peer_result(pol, h))

PathClosed ==
  \E slot \in PeerSlots, credit \in Credits(pol) :
    PolicyRan("path_closed", [slot |-> slot],
              path_closed(pol, slot, credit))

PathDropped ==
  \E slot \in PeerSlots, credit \in Credits(pol) :
    PolicyRan("path_dropped", [slot |-> slot],
              path_dropped(pol, slot, credit))

AckOpenFailure ==
  \E slot \in PeerSlots, credit \in Credits(pol) :
    PolicyRan("ack_open_failure", [slot |-> slot],
              ack_open_failure(pol, slot, credit))

\* The shutdown event sets the flag.
Shutdown ==
  /\ ~pol.shutting_down
  /\ PolicyRan("shutting_down", [value |-> TRUE],
               Effect(set_shutting_down(pol, TRUE), NoOutput))

ReceiveBatch == HandleBatchOf(LifecycleBatches, MaxKept)

NextLifecycle ==
  \/ AckPeering
  \/ AddOpath
  \/ BlockPeer
  \/ UnblockPeer
  \/ ReceiveBatch
  \/ RemovePeer
  \/ PathClosed
  \/ PathDropped
  \/ AckOpenFailure
  \/ Shutdown

SpecLifecycle == InitLifecycle /\ [][NextLifecycle]_vars

(* The policy with add_ipath and add_opath called as operations of their own *)

\* The slots the stream manager can hand out for a new path: the invalid
\* slot when the path could not be added, else a slot that is not in use.
FreeSlots(c) ==
  {InvalidSlot} \cup
  (PeerSlots \ (DOMAIN c.ipath_to_peer \cup DOMAIN c.opath_to_peer))

AddIpathCall ==
  \E h \in PolicyPeers, slot \in FreeSlots(pol) :
    PolicyRan("add_ipath", [slot |-> slot, peer |-> h],
              Effect(add_ipath(pol, slot, h), NoOutput))

AddOpathCall ==
  \E h \in PolicyPeers, slot \in FreeSlots(pol) :
    PolicyRan("add_opath", [slot |-> slot, peer |-> h],
              Effect(add_opath(pol, slot, h), NoOutput))

NextPaths ==
  \/ AckPeering
  \/ AddIpathCall
  \/ AddOpathCall
  \/ RemovePeer
  \/ PathClosed
  \/ PathDropped
  \/ AckOpenFailure

SpecPaths == InitLifecycle /\ [][NextPaths]_vars

-----------------------------------------------------------------------------
(* Properties of handle_batch *)

\* C10: a node message of a peer batch from a non-blocked peer whose TTL is 0
\* on entry is delivered locally (to workers or stores, if there are any) but
\* is not pushed to the peers() manager.
C10_ExpiredBatchNotForwarded ==
  ( /\ last.op = "handle_batch"
    /\ last.inp.peer \notin last.pre.blocked_peers
    /\ \A i \in DOMAIN last.inp.batch : last.inp.batch[i].ttl = 0 )
  => /\ obs.pushed = <<>>
     /\ \A i \in DOMAIN last.inp.batch :
          LET content == last.inp.batch[i].content
          IN (content.kind = "data" /\ last.pre.num_workers > 0) =>
               \E j \in DOMAIN shipped : shipped[j].content = content

-----------------------------------------------------------------------------
(* A network of peers: static connected topology, reliable FIFO links *)

\* Most calls of subscribe in one run.
MaxSubs == 2

Edge(a, b) == {<<a, b>>, <<b, a>>}

\* A line, a triangle and a square.
Topologies ==
  { [nodes |-> {1, 2, 3}, links |-> Edge(1, 2) \cup Edge(2, 3)],
    [nodes |-> {1, 2, 3},
     links |-> Edge(1, 2) \cup Edge(2, 3) \cup Edge(1, 3)],
    [nodes |-> {1, 2, 3, 4},
     links |-> Edge(1, 2) \cup Edge(2, 3) \cup Edge(3, 4) \cup Edge(1, 4)] }

NetTopic == <<"a", "x">>

Nodes == DOMAIN peers

Links == DOMAIN chan

NeighborsOf(links, n) == {l[2] : l \in {k \in links : k[1] = n}}

\* A peer whose routing table holds an entry for each of its connections.
connected_peer(id, neighbors) ==
  [new_peer(id) EXCEPT !.tbl = [n \in neighbors |-> new_entry(n)]]

\* No publish call yet.
NoPub == [at |-> NilId, expected |-> {}, dist |-> EmptyMap]

\* No message is in flight.
Quiescent == \A l \in Links : chan[l] = <<>>

RECURSIVE Enqueue(_, _, _, _)
\* send(hdl, ...) for each message of out, in order: the message joins the
\* link from the sender to the neighbor the handle addresses.
Enqueue(ch, from, out, hops) ==
  IF out = <<>> THEN ch
  ELSE Enqueue([ch EXCEPT ![<<from, Head(out).to>>] =
                  Append(@, [m |-> Head(out), hops |-> hops])],
               from, Tail(out), hops)

\* The flood a SUBSCRIBE message belongs to.
FloodOf(m) == <<front(m.path), m.ts>>

RECURSIVE CountSent(_, _)
\* The per-flood numbers of SUBSCRIBE messages, out added.
CountSent(nsub, out) ==
  IF out = <<>> THEN nsub
  ELSE LET f == FloodOf(Head(out))
           n == IF f \in DOMAIN nsub THEN nsub[f] ELSE 0
       IN CountSent((f :> n + 1) @@ nsub, Tail(out))

\* The peers of topology t after construction, their connections made.
InitTopology(t) ==
  /\ peers = [n \in t.nodes |-> connected_peer(n, NeighborsOf(t.links, n))]
  /\ chan = [l \in t.links |-> <<>>]
  /\ sent = <<>>
  /\ shipped = <<>>
  /\ last = NoCall
  /\ obs = [subs |-> 0, nsub |-> EmptyMap, filt |-> EmptyMap,
            pub |-> NoPub, got |-> [n \in t.nodes |-> <<>>]]
  /\ pol = <<>>
  /\ mp = <<>>

InitNet == \E t \in Topologies : InitTopology(t)

\* Handler op ran at node at with inputs inp and returned r; the messages it
\* sent travel with hop count hops.
NetRan(op, at, inp, r, ch, hops, o) ==
  /\ peers' = [peers EXCEPT ![at] = r.peer]
  /\ chan' = Enqueue(ch, at, r.out, hops)
  /\ sent' = r.out
  /\ shipped' = r.local
  /\ last' = [op |-> op, inp |-> inp, pre |-> NoPeer,
              accepted |-> r.accepted, before |-> NoBrief]
  /\ obs' = o
  /\ UNCHANGED <<pol, mp>>

NetSubscribe ==
  \E n \in Nodes, what \in {Fa, Fb} :
    /\ obs.subs < MaxSubs
    /\ obs.pub = NoPub
    /\ \E r \in {subscribe(peers[n], what)} :
         NetRan("subscribe", n, [at |-> n, what |-> what], r, chan, 1,
                [obs EXCEPT
                   !.subs = @ + 1,
                   !.nsub = CountSent(@, r.out),
                   !.filt = IF r.accepted
                            THEN (<<n, r.peer.timestamp>> :> r.peer.filter) @@ @
                            ELSE @])

\* The SUBSCRIBE message at the head of a link reaches its receiver.
NetFilterUpdate ==
  \E l \in Links :
    /\ chan[l] # <<>>
    /\ Head(chan[l]).m.type = "subscribe"
    /\ \E e \in {Head(chan[l])} :
         \E r \in {handle_filter_update(peers[l[2]], e.m.path, e.m.filter,
                                        e.m.ts)} :
           NetRan("handle_filter_update", l[2],
                  [at |-> l[2], path |-> e.m.path, filter |-> e.m.filter,
                   ts |-> e.m.ts],
                  r, [chan EXCEPT ![l] = Tail(@)], e.hops + 1,
                  [obs EXCEPT !.nsub = CountSent(@, r.out)])

\* One publish call, made once the subscription floods have quiesced.
NetPublish ==
  \E n \in Nodes :
    \E receivers \in Orders(subscribers(peers[n], NetTopic)) :
      /\ obs.pub = NoPub
      /\ Quiescent
      /\ NetRan("publish", n,
                [at |-> n, content |-> DataOn(NetTopic),
                 receivers |-> receivers],
                publish(peers[n], DataOn(NetTopic), receivers), chan, 1,
                [obs EXCEPT !.pub =
                   [at |-> n,
                    expected |-> SeqRange(receivers),
                    dist |-> [x \in SeqRange(receivers) |->
                                distance_to(peers[n].tbl, x)]]])

\* The PUBLISH message at the head of a link reaches its receiver.
NetPublication ==
  \E l \in Links :
    /\ chan[l] # <<>>
    /\ Head(chan[l]).m.type = "publish"
    /\ \E e \in {Head(chan[l])} :
         \E msg \in {[content |-> e.m.content, ttl |-> e.m.ttl,
                       receivers |-> e.m.receivers]} :
           \E r \in {handle_publication(peers[l[2]], msg)} :
             NetRan("handle_publication", l[2], [at |-> l[2], msg |-> msg],
                    r, [chan EXCEPT ![l] = Tail(@)], e.hops + 1,
                    IF r.local # <<>>
                    THEN [obs EXCEPT !.got[l[2]] = Append(@, e.hops)]
                    ELSE obs)

NextNet ==
  \/ NetSubscribe
  \/ NetFilterUpdate
  \/ NetPublish
  \/ NetPublication

SpecNet == InitNet /\ [][NextNet]_vars

\* The networks of three peers (line and triangle).
InitFair ==
  \E t \in {x \in Topologies : Cardinality(x.nodes) = 3} : InitTopology(t)

\* Deliveries are scheduled: a message at the head of a link is eventually
\* handled by its receiver.
FairNet ==
  /\ InitFair
  /\ [][NextNet]_vars
  /\ WF_vars(NetFilterUpdate)
  /\ WF_vars(NetPublication)

-----------------------------------------------------------------------------
(* Properties of the network *)

\* The peers other than the publisher whose own filter matches the topic.
Matching(at) == {n \in Nodes \ {at} : matches(peers[n].filter, NetTopic)}

\* C1: publish(content), called once the subscription floods have quiesced in
\* a static connected topology, has content shipped locally exactly once at
\* every peer whose filter, as stored at the publisher, matches the topic
\* (these are the other peers whose own filter matches) and at no other peer;
\* each copy arrives after as many hops as the publisher's distance_to gave
\* for its receiver, and when the network is quiet again none is missing.
C1_EndToEndDelivery ==
  obs.pub # NoPub =>
    /\ obs.pub.expected = Matching(obs.pub.at)
    /\ \A n \in Nodes :
         IF n \in obs.pub.expected
         THEN /\ obs.got[n] \in {<<>>, <<obs.pub.dist[n]>>}
              /\ Quiescent => obs.got[n] # <<>>
         ELSE obs.got[n] = <<>>

\* In the square, peer 1 published; peer 3 got its copy after two hops, and a
\* peer with a non-matching filter got none.
C1_Witness ==
  /\ obs.pub.at = 1
  /\ Nodes = {1, 2, 3, 4}
  /\ Quiescent
  /\ obs.got[3] = <<2>>
  /\ \E n \in Nodes \ {1, 3} :
       /\ n \in DOMAIN peers[1].peer_filters
       /\ peers[n].filter = Fb
       /\ obs.got[n] = <<>>

\* Peer x stores the filter peer a advertised with timestamp t.
Stored(x, a, t) ==
  /\ <<a, t>> \in DOMAIN obs.filt
  /\ a \in DOMAIN peers[x].peer_filters
  /\ peers[x].peer_filters[a] = obs.filt[<<a, t>>]
  /\ a \in DOMAIN peers[x].peer_timestamps
  /\ peers[x].peer_timestamps[a] = t

\* What a peer stores for another peer is a filter that peer advertised,
\* with the timestamp it advertised it with.
StoredAsAdvertised ==
  \A x \in Nodes : \A a \in DOMAIN peers[x].peer_filters :
    Stored(x, a, peers[x].peer_timestamps[a])

\* In one step the timestamp a peer stores for another peer stays or advances
\* to the next one: no advertised filter is skipped.
NoneSkipped ==
  \A x \in Nodes : \A a \in Nodes :
    StoredTs(peers'[x], a) \in
      {StoredTs(peers[x], a), StoredTs(peers[x], a) + 1}

\* Every peer stores the current filter and timestamp of every other peer that
\* has subscribed.
Converged ==
  \A a \in Nodes : \A x \in Nodes \ {a} :
    peers[a].timestamp > 0 =>
      /\ Stored(x, a, peers[a].timestamp)
      /\ peers[x].peer_filters[a] = peers[a].filter

NoSelfEntry == \A a \in Nodes : a \notin DOMAIN peers[a].peer_filters

\* C2: in a connected static topology with reliable delivery, under any
\* interleaving of the deliveries, once peer a's subscribe has changed its
\* filter to F with timestamp t every other peer eventually holds
\* peer_filters[a] = F and peer_timestamps[a] = t, and no peer ever stores a
\* peer_filters entry for itself.  Stated as: the stored entries are
\* advertised ones and advance one timestamp at a time; whenever no message is
\* in flight every peer holds the current filter and timestamp of every
\* subscriber; and from some point on that is so for good.
C2_FloodConverges ==
  /\ []NoSelfEntry
  /\ []StoredAsAdvertised
  /\ [][NoneSkipped]_vars
  /\ [](Quiescent => Converged)
  /\ <>[]Converged

\* In the line, peer 1 subscribed twice; the peer at the other end holds the
\* second filter and timestamp.
C2_Witness ==
  /\ Cardinality(Links) = 4
  /\ Quiescent
  /\ peers[1].timestamp = 2
  /\ Stored(3, 1, 2)
  /\ obs.filt[<<1, 1>>] # obs.filt[<<1, 2>>]
  /\ 1 \notin DOMAIN peers[1].peer_filters

RECURSIVE SimplePaths(_, _, _, _)
\* The number of ways to prolong a path that ends in n and has visited the
\* peers of visited by one or more links to peers not yet on it; todo holds
\* the neighbors of n still to count.
SimplePaths(links, visited, n, todo) ==
  IF todo = {} THEN 0
  ELSE LET m == CHOOSE x \in todo : TRUE
           via == IF m \in visited THEN 0
                  ELSE 1 + SimplePaths(links, visited \cup {m}, m,
                                       NeighborsOf(links, m))
       IN via + SimplePaths(links, visited, n, todo \ {m})

\* For each topology and each of its peers, the number of loop-free paths of
\* one or more links that leave the peer.
FloodBound ==
  [t \in Topologies |->
     [a \in t.nodes |->
        SimplePaths(t.links, {a}, a, NeighborsOf(t.links, a))]]

\* The SUBSCRIBE messages in flight.
InFlight ==
  UNION {{chan[l][i].m : i \in DOMAIN chan[l]} : l \in Links}

LoopFree(m) == NoDuplicates(m.path) /\ ~contains(m.path, m.to)

\* C3: the flood started by one subscribe sends no more SUBSCRIBE messages
\* than there are loop-free paths leaving the subscriber, so it stops; every
\* path handle_filter_update forwards is strictly longer than the one it
\* received and holds no peer id twice, and no peer is sent an update whose
\* path already contains that peer.
C3_FloodTerminates ==
  /\ \A f \in DOMAIN obs.nsub :
       obs.nsub[f] <= FloodBound[[nodes |-> Nodes, links |-> Links]][f[1]]
  /\ last.op = "handle_filter_update" =>
       \A i \in DOMAIN sent :
         /\ size(sent[i].path) > size(last.inp.path)
         /\ LoopFree(sent[i])
  /\ last.op = "subscribe" => \A i \in DOMAIN sent : LoopFree(sent[i])
  /\ \A m \in InFlight : m.type = "subscribe" => LoopFree(m)

\* In the square the flood of one subscribe has stopped after six messages,
\* the last of them handled by a peer that forwarded nothing.
C3_Witness ==
  /\ Nodes = {1, 2, 3, 4}
  /\ Quiescent
  /\ DOMAIN obs.nsub = {<<1, 1>>}
  /\ obs.nsub[<<1, 1>>] = 6
  /\ last.op = "handle_filter_update"
  /\ size(last.inp.path) = 3
  /\ last.accepted
  /\ sent = <<>>

\* The call handled a batch of peer h: directly, or by replay in unblock_peer.
HandledFrom(c) == c.op \in {"handle_batch", "unblock_peer"}

\* Item m was placed on the outbound path to peer x.
PlacedOn(x, m) == \E i \in DOMAIN sent : sent[i] = [to |-> x, msg |-> m]

\* C13: a node message pushed to the peers manager while a batch from sender
\* h is handled (also by replay in unblock_peer) is never placed on the
\* outbound path to h; the messages that were in the central buffer before
\* the batch started are flushed to every outbound path, the one to h
\* included; and outside batch handling active_sender is none.
C13_SelectorDiscipline ==
  /\ pol.active_sender = NilId
  /\ HandledFrom(last) =>
       /\ \A i \in DOMAIN sent :
            sent[i].msg \in SeqRange(obs.pushed) => sent[i].to # last.inp.peer
       /\ \A m \in SeqRange(last.pre.buf) :
            m \notin SeqRange(pol.buf) =>
              \A x \in DOMAIN last.pre.peer_to_opath : PlacedOn(x, m)

\* A batch from peer 1 arrived while a published message waited in the
\* central buffer: that message went to peer 1 as well, the forwarded one
\* only to peer 3.
C13_Witness ==
  /\ last.op = "handle_batch"
  /\ last.inp.peer = 1
  /\ DOMAIN last.pre.peer_to_opath = {1, 3}
  /\ Len(last.pre.buf) = 1
  /\ Len(obs.pushed) = 1
  /\ PlacedOn(1, last.pre.buf[1])
  /\ PlacedOn(3, obs.pushed[1])
  /\ ~PlacedOn(1, obs.pushed[1])

-----------------------------------------------------------------------------
(* Blocked peers *)

\* The contents of batch xs that have a local path to go to, in batch order.
LocalContents(c, xs) ==
  LET wanted == SelectSeq(xs, LAMBDA m :
                  IF m.content.kind = "data" THEN c.num_workers > 0
                  ELSE c.num_stores > 0)
  IN [i \in DOMAIN wanted |-> wanted[i].content]

\* C14: a peer batch from a blocked peer h is appended whole, TTLs untouched,
\* to the end of blocked_msgs[h] and changes nothing else: nothing goes to
\* workers, stores or peers.  A batch from a peer that is not blocked is
\* processed: its contents go to the workers and stores and nothing is
\* buffered, whoever else is blocked.
C14_BlockedBatchBuffered ==
  last.op = "handle_batch" =>
    LET h == last.inp.peer
    IN IF h \in last.pre.blocked_peers
       THEN /\ Buffered(pol, h) = Append(Buffered(last.pre, h), last.inp.batch)
            /\ \A x \in DOMAIN pol.blocked_msgs \ {h} :
                 Buffered(pol, x) = Buffered(last.pre, x)
            /\ DOMAIN pol.blocked_msgs = DOMAIN last.pre.blocked_msgs \cup {h}
            /\ [pol EXCEPT !.blocked_msgs = EmptyMap]
                 = [last.pre EXCEPT !.blocked_msgs = EmptyMap]
            /\ shipped = <<>>
            /\ obs.pushed = <<>>
            /\ sent = <<>>
       ELSE /\ pol.blocked_msgs = last.pre.blocked_msgs
            /\ pol.blocked_peers = last.pre.blocked_peers
            /\ [i \in DOMAIN shipped |-> shipped[i].content]
                 = LocalContents(last.pre, last.inp.batch)

\* A second, different batch from blocked peer 1 went behind the first one.
C14_Witness ==
  /\ last.op = "handle_batch"
  /\ last.inp.peer = 1
  /\ 1 \in last.pre.blocked_peers
  /\ Len(Buffered(last.pre, 1)) = 1
  /\ Len(Buffered(pol, 1)) = 2
  /\ Buffered(pol, 1)[1] # Buffered(pol, 1)[2]
  /\ pol.num_workers > 0
  /\ 3 \in DOMAIN pol.peer_to_opath

RECURSIVE Flat(_)
\* The node messages of a sequence of batches, in arrival order.
Flat(batches) ==
  IF batches = <<>> THEN <<>> ELSE Head(batches) \o Flat(Tail(batches))

\* The node messages of xs that a policy in state c passes on to its peers.
ForwardedOf(c, xs) ==
  LET kept == SelectSeq(xs, LAMBDA m :
                /\ c.forward
                /\ ~ends_with(m.content.topic, clone_suffix)
                /\ (m.ttl - 1) % (U16Max + 1) # 0)
  IN [i \in DOMAIN kept |->
        [kept[i] EXCEPT !.ttl = (kept[i].ttl - 1) % (U16Max + 1)]]

\* The items placed on the outbound path to peer x, in order.
PlacedFor(x) ==
  LET on == SelectSeq(sent, LAMBDA it : it.to = x)
  IN [i \in DOMAIN on |-> on[i].msg]

RECURSIVE DeliveredInOrder(_, _, _)
\* The batches delivered one after the other to peer h, which is not blocked.
DeliveredInOrder(c, h, batches) ==
  IF batches = <<>> THEN Effect(c, NoOutput)
  ELSE LET d == deliver_batch(c, h, Head(batches))
           r == DeliveredInOrder(d.pol, h, Tail(batches))
       IN Effect(r.pol, Joined(d.output, r.output))

\* C15: unblock(P), with batches buffered for P and P's inbound path still
\* there, handles the buffered batches in arrival order; what goes to the
\* workers, stores and peers is what the same batches give when they are
\* delivered, in that order, to P not blocked; afterwards P is not blocked
\* and has no entry in blocked_msgs.
C15_BlockReplayEquivalence ==
  ( /\ last.op = "unblock_peer"
    /\ last.inp.peer \in DOMAIN last.pre.blocked_msgs
    /\ last.inp.peer \in DOMAIN last.pre.peer_to_ipath )
  => LET P == last.inp.peer
         batches == last.pre.blocked_msgs[P]
         free == [last.pre EXCEPT
                    !.blocked_peers = @ \ {P},
                    !.blocked_msgs = Restrict(@, DOMAIN @ \ {P})]
         direct == DeliveredInOrder(free, P, batches)
     IN /\ P \notin pol.blocked_peers
        /\ P \notin DOMAIN pol.blocked_msgs
        /\ pol = direct.pol
        /\ shipped = direct.output.local
        /\ obs.pushed = direct.output.pushed
        /\ sent = direct.output.placed
        /\ [i \in DOMAIN shipped |-> shipped[i].content]
             = LocalContents(last.pre, Flat(batches))
        /\ obs.pushed = ForwardedOf(last.pre, Flat(batches))
        /\ PlacedFor(P) = <<>>
        /\ \A x \in DOMAIN last.pre.peer_to_opath \ {P} :
             PlacedFor(x) = obs.pushed

\* Two different batches of peer 1 were replayed: both reached the workers
\* or stores and the path to peer 3.
C15_Witness ==
  /\ last.op = "unblock_peer"
  /\ last.inp.peer = 1
  /\ 1 \in DOMAIN last.pre.peer_to_ipath
  /\ Len(Buffered(last.pre, 1)) = 2
  /\ Buffered(last.pre, 1)[1] # Buffered(last.pre, 1)[2]
  /\ Len(shipped) >= 2
  /\ Len(obs.pushed) >= 2
  /\ obs.pushed[1] # obs.pushed[2]
  /\ PlacedFor(3) = obs.pushed
  /\ 1 \in DOMAIN last.pre.peer_to_opath

-----------------------------------------------------------------------------
(* Peers that are removed *)

\* C16: unblock(h) for a peer h that has buffered batches but no inbound
\* path any more drops the buffered batches unprocessed: nothing goes to
\* workers, stores or peers, h is not blocked afterwards and has no entry in
\* blocked_msgs, and nothing else changes.
C16_UnblockWithoutPathDiscards ==
  ( /\ last.op = "unblock_peer"
    /\ last.inp.peer \in DOMAIN last.pre.blocked_msgs
    /\ last.inp.peer \notin DOMAIN last.pre.peer_to_ipath )
  => LET h == last.inp.peer
     IN /\ h \notin pol.blocked_peers
        /\ h \notin DOMAIN pol.blocked_msgs
        /\ shipped = <<>>
        /\ obs.pushed = <<>>
        /\ sent = <<>>
        /\ pol = [last.pre EXCEPT
                    !.blocked_peers = @ \ {h},
                    !.blocked_msgs = Restrict(@, DOMAIN @ \ {h})]

\* Peer 1 lost its inbound path with a forwardable batch buffered and was
\* then unblocked, with an outbound path to peer 3 in place.
C16_Witness ==
  /\ last.op = "unblock_peer"
  /\ last.inp.peer = 1
  /\ 1 \in last.pre.blocked_peers
  /\ Len(Buffered(last.pre, 1)) = 1
  /\ ForwardedOf(last.pre, Flat(Buffered(last.pre, 1))) # <<>>
  /\ 1 \notin DOMAIN last.pre.peer_to_ipath
  /\ 3 \in DOMAIN last.pre.peer_to_opath
  /\ 1 \notin pol.blocked_peers

\* The peers that have a path, inbound or outbound.
Connected(c) == DOMAIN c.peer_to_ipath \cup DOMAIN c.peer_to_opath

\* The peers the last call removed: remove_peer, directly or from a path
\* callback or a failed open, erased their paths.
RemovedByLast ==
  IF last.op \in {"remove_peer", "path_closed", "path_dropped",
                  "ack_open_failure"}
  THEN Connected(last.pre) \ Connected(pol)
  ELSE {}

\* C17: the removal or disconnection of a peer leaves it in state none: it
\* is not a member of blocked_peers and has no buffered batches, whether it
\* was active or blocked before (so that a batch it sends after it has
\* connected again is processed and not buffered).
C17_RemovalLeavesNone ==
  \A h \in RemovedByLast :
    /\ h \notin pol.blocked_peers
    /\ h \notin DOMAIN pol.blocked_msgs

-----------------------------------------------------------------------------
(* Neighbors that are removed *)

\* The call told the peer that a neighbor is gone.
IsRemoval(c) == c.op \in {"peer_removed", "peer_disconnected"}

\* Some entry of the routing table records a distance to id.
Recorded(tbl, id) == \E n \in DOMAIN tbl : id \in DOMAIN tbl[n].distances

\* C18: peer_removed(id) erases tbl[id], and erases peer_filters[id] if and
\* only if no remaining entry of the routing table records a distance to id;
\* the other entries of tbl and of peer_filters, peer_timestamps, ttl, the
\* timestamp and the local filter stay as they are and nothing is sent;
\* peer_disconnected(id) has the same effect.
C18_RemovalEffect ==
  IsRemoval(last) =>
    LET id == last.inp.id
        pre == last.pre
        post == peers[Self]
    IN /\ post.tbl = Restrict(pre.tbl, DOMAIN pre.tbl \ {id})
       /\ distance_to(post.tbl, id) = Unreachable <=> ~Recorded(post.tbl, id)
       /\ post.peer_filters =
            IF Recorded(post.tbl, id) THEN pre.peer_filters
            ELSE Restrict(pre.peer_filters, DOMAIN pre.peer_filters \ {id})
       /\ post.peer_timestamps = pre.peer_timestamps
       /\ post.ttl = pre.ttl
       /\ post.timestamp = pre.timestamp
       /\ post.filter = pre.filter
       /\ post.id = pre.id
       /\ sent = <<>>
       /\ shipped = <<>>

\* Neighbor 1 went, by removal and by disconnection, in both cases: with its
\* filter kept because neighbor 3 records a distance to it, and with its
\* filter erased.
C18_Witness ==
  /\ last.op = "peer_disconnected"
  /\ last.inp.id = 1
  /\ 1 \in DOMAIN last.pre.tbl
  /\ 1 \in DOMAIN last.pre.peer_filters
  /\ 3 \in DOMAIN last.pre.peer_filters
  /\ Recorded(peers[Self].tbl, 1)
  /\ 1 \in DOMAIN peers[Self].peer_filters

\* C19: every key of peer_filters is a reachable peer: a direct neighbor or
\* a peer that some neighbor's entry records a distance to, also after
\* neighbors were removed or disconnected.
C19_FiltersOnlyForReachable ==
  \A key \in DOMAIN peers[Self].peer_filters :
    distance_to(peers[Self].tbl, key) # Unreachable

-----------------------------------------------------------------------------
(* Shutdown *)

\* The last call made the task quit.
Quit == last.pre.exit_reason = "none" /\ pol.exit_reason # "none"

\* C20: the task quits, with reason user_shutdown, in exactly those calls in
\* which remove_peer removes a peer while shutting_down is set and no
\* outbound peer path remains afterwards: a removal that leaves an outbound
\* peer path does not quit, a removal while not shutting down does not quit,
\* and no other call quits.
C20_ShutdownDrain ==
  /\ pol.exit_reason \in {"none", "user_shutdown"}
  /\ last.op # "none" =>
       ( Quit <=> /\ last.pre.shutting_down
                  /\ RemovedByLast # {}
                  /\ DOMAIN pol.peer_to_opath = {} )

\* While shutting down the drop of the last outbound path, the one to peer
\* 3, made the task quit; the inbound path from peer 1 was still there.
C20_Witness ==
  /\ last.op = "path_dropped"
  /\ Quit
  /\ pol.exit_reason = "user_shutdown"
  /\ DOMAIN last.pre.peer_to_opath = {3}
  /\ RemovedByLast = {3}
  /\ DOMAIN pol.peer_to_ipath = {1}

\* While shutting down peer 1 was removed and the task went on, because the
\* outbound path to peer 3 remained.
C20_WitnessRemaining ==
  /\ last.op = "remove_peer"
  /\ ~Quit
  /\ last.pre.shutting_down
  /\ RemovedByLast = {1}
  /\ DOMAIN pol.peer_to_opath = {3}

-----------------------------------------------------------------------------
(* Timestamps of the peers *)

\* The timestamp stored for peer o, 0 if there is none.
StampOf(p, o) == IF o \in DOMAIN p.peer_timestamps THEN p.peer_timestamps[o] ELSE 0

\* In this step no entry of peer_timestamps went away or went down.
StampsKept ==
  \A o \in DOMAIN peers[Self].peer_timestamps :
    /\ o \in DOMAIN peers'[Self].peer_timestamps
    /\ peers'[Self].peer_timestamps[o] >= peers[Self].peer_timestamps[o]

\* The entry of every origin is the greatest timestamp accepted from it, and
\* the last accepted update left the entry of its origin at its timestamp or
\* above.
StampsAreMaxima ==
  /\ (IsUpdate(last) /\ last.accepted) =>
       StampOf(peers[Self], front(last.inp.path)) >= last.inp.ts
  /\ DOMAIN obs = DOMAIN peers[Self].peer_timestamps
  /\ \A p \in DOMAIN obs : peers[Self].peer_timestamps[p] = obs[p]

\* C21: under handle_filter_update, subscribe, publish, peer_removed and
\* peer_disconnected no entry of peer_timestamps is removed or decreases;
\* after an accepted update with origin p and timestamp t the entry of p is
\* at least t, and the entry of every origin is the greatest timestamp of
\* the updates accepted from it.
C21_StampsMonotone == [][StampsKept]_vars /\ []StampsAreMaxima

\* Neighbor 1 was removed, lost its filter and connected again: its update
\* with the older timestamp 1 is accepted and its entry stays at 2.
C21_Witness ==
  /\ IsUpdate(last)
  /\ last.accepted
  /\ front(last.inp.path) = 1
  /\ last.inp.ts = 1
  /\ StampOf(last.pre, 1) = 2
  /\ 1 \notin DOMAIN last.pre.peer_filters
  /\ StampOf(peers[Self], 1) = 2

-----------------------------------------------------------------------------
(* alm::multipath *)

\* static constexpr size_t block_size = 16
block_size == 16

\* A multipath is its id, its children nodes_[0 .. size_) in order, and the
\* capacity reserved_ of the array that holds them.
\* explicit multipath(PeerId id)
new_multipath(id) == [id |-> id, nodes |-> <<>>, reserved |-> 0]

RECURSIVE lower_bound(_, _, _, _)
\* std::lower_bound with node_less on nodes[first .. first + len): the
\* binary search, which looks at the middle element of what is left.
lower_bound(nodes, id, first, len) ==
  IF len = 0 THEN first
  ELSE LET half == len \div 2
           mid == first + half
       IN IF nodes[mid].id < id
          THEN lower_bound(nodes, id, mid + 1, len - half - 1)
          ELSE lower_bound(nodes, id, first, half)

\* grow_if_needed() allocates a new array when the old one is full.
grows(x) == Len(x.nodes) = x.reserved

grow_if_needed(x) ==
  IF grows(x) THEN [x EXCEPT !.reserved = @ + block_size] ELSE x

append(x, id) ==
  [grow_if_needed(x) EXCEPT !.nodes = Append(@, new_multipath(id))]

\* What a call returns: the node after the call, the index of the child it
\* returns an iterator to, the inserted flag, and the fault if the call used
\* the array that grow_if_needed had freed.
Emplaced(x, at, inserted, fault) ==
  [node |-> x, at |-> at, inserted |-> inserted, fault |-> fault]

\* insert_at(pos, id).  When grow_if_needed() moves the children to a new
\* array, pos still points into the freed one: std::move_backward(pos, last,
\* last + 1) then walks down from the end of the new array through foreign
\* memory, and *pos and the returned iterator refer to freed memory.  ub is
\* what the build makes of that: the process crashes, or it goes on with
\* every child moved up by one, the first slot holding what was in memory
\* in front of the array (a childless node with id ub.id), and the new id
\* nowhere in the array.
insert_at(x, pos, id, ub) ==
  IF grows(x)
  THEN IF ub.crash THEN Emplaced(x, 0, TRUE, "crash")
       ELSE Emplaced([grow_if_needed(x) EXCEPT
                        !.nodes = <<new_multipath(ub.id)>> \o @],
                     0, TRUE, "dangling")
  ELSE Emplaced([x EXCEPT
                   !.nodes = SubSeq(@, 1, pos - 1) \o <<new_multipath(id)>>
                             \o SubSeq(@, pos, Len(@))],
                pos, TRUE, "none")

emplace_node(x, id, ub) ==
  LET insertion_point == lower_bound(x.nodes, id, 1, Len(x.nodes))
  IN IF insertion_point = Len(x.nodes) + 1
     THEN Emplaced(append(x, id), insertion_point, TRUE, "none")
     ELSE IF x.nodes[insertion_point].id = id
     THEN Emplaced(x, insertion_point, FALSE, "none")
     ELSE insert_at(x, insertion_point, id, ub)

\* What splice returns: the node after the call, the result and the fault.
Spliced(x, result, fault) == [node |-> x, result |-> result, fault |-> fault]

RECURSIVE splice_cont(_, _, _)
\* splice_cont(first, last) with [first, last) = q, not empty.  After a
\* fault the rest of q goes into freed memory and leaves the tree alone.
splice_cont(x, q, ub) ==
  LET e == emplace_node(x, q[1], ub)
  IN IF e.fault # "none" THEN Spliced(e.node, TRUE, e.fault)
     ELSE IF Len(q) = 1 THEN Spliced(e.node, TRUE, "none")
     ELSE LET c == splice_cont(e.node.nodes[e.at], Tail(q), ub)
          IN Spliced([e.node EXCEPT !.nodes[e.at] = c.node], TRUE, c.fault)

\* Mutant: the first element of the path is not compared with the id.
splice_any_head(x, q, ub) ==
  IF q = <<>> THEN Spliced(x, TRUE, "none")
  ELSE IF Len(q) = 1 THEN Spliced(x, TRUE, "none")
  ELSE splice_cont(x, Tail(q), ub)

\* splice(first, last) with [first, last) = q
splice(x, q, ub) ==
  IF q = <<>> THEN Spliced(x, TRUE, "none")
  ELSE IF q[1] # x.id THEN Spliced(x, FALSE, "none")
  ELSE IF Len(q) = 1 THEN Spliced(x, TRUE, "none")
  ELSE splice_cont(x, Tail(q), ub)

RECURSIVE equals(_, _)
\* id_ == other.id_ && std::equal(children, other children, equals)
equals(x, other) ==
  /\ x.id = other.id
  /\ Len(x.nodes) = Len(other.nodes)
  /\ \A i \in DOMAIN x.nodes : equals(x.nodes[i], other.nodes[i])

RECURSIVE from_linear(_)
\* multipath(first, last): the chain of the ids of q, which is not empty.
from_linear(q) ==
  IF Len(q) = 1 THEN new_multipath(q[1])
  ELSE [append(new_multipath(q[1]), q[2]) EXCEPT
          !.nodes[1] = from_linear(Tail(q))]

-----------------------------------------------------------------------------
(* The wire form of a multipath *)

\* One element of the wire form: a bracket, or an id with its value.
Tok(t, v) == [t |-> t, v |-> v]

RECURSIVE serialize(_)
RECURSIVE serialize_nodes(_)
\* inspect(f, x) with a saving f: the id, then the children in order, which
\* are left out when there are none.
serialize(x) ==
  <<Tok("(", 0), Tok("id", x.id)>>
  \o (IF x.nodes = <<>> THEN <<>>
      ELSE <<Tok("[", 0)>> \o serialize_nodes(x.nodes) \o <<Tok("]", 0)>>)
  \o <<Tok(")", 0)>>

serialize_nodes(ns) ==
  IF ns = <<>> THEN <<>> ELSE serialize(Head(ns)) \o serialize_nodes(Tail(ns))

\* What loading returns: the node read, the index behind its last element
\* in the buffer, and the fault if emplace_node used a freed array.
Loaded(x, next, fault) == [node |-> x, next |-> next, fault |-> fault]

RECURSIVE deserialize_at(_, _, _)
RECURSIVE deserialize_nodes(_, _, _, _)
\* inspect(f, x) with a loading f that reads the node starting at buf[i].
deserialize_at(buf, i, ub) ==
  LET x == new_multipath(buf[i + 1].v)
  IN IF buf[i + 2].t = "["
     THEN LET r == deserialize_nodes(buf, i + 3, x, ub)
          IN Loaded(r.node, r.next + 1, r.fault)
     ELSE Loaded(x, i + 3, "none")

\* The children from buf[i] up to the closing bracket go into x the way
\* operator=(const multipath&) fills a node: emplace_node for the id of the
\* child, then the child read is assigned to the node returned.
deserialize_nodes(buf, i, x, ub) ==
  IF buf[i].t = "]" THEN Loaded(x, i + 1, "none")
  ELSE LET c == deserialize_at(buf, i, ub)
           e == emplace_node(x, c.node.id, ub)
       IN IF c.fault # "none" THEN Loaded(x, i, c.fault)
          ELSE IF e.fault # "none" THEN Loaded(e.node, i, e.fault)
          ELSE deserialize_nodes(
                 buf, c.next, [e.node EXCEPT !.nodes[e.at] = c.node], ub)

deserialize(buf, ub) == deserialize_at(buf, 1, ub)

-----------------------------------------------------------------------------
(* A multipath built by its users *)

\* Most calls made on one multipath.
MaxCalls == 3

\* The ids given to emplace_node and the linear paths given to splice.
EmplaceIds == {2, 3, 30}

LinearPaths ==
  { <<>>, <<1>>, <<2, 1>>, <<1, 2, 3>>, <<1, 2, 4>>, <<1, 5, 6>>,
    <<1, 5, 6, 7>> }

\* What the build can make of a use of the freed array: a crash, or garbage
\* with the default id or with some other id in the first slot.
UbOutcomes == [crash : {TRUE}, id : {NilId}] \cup [crash : {FALSE}, id : {NilId, 40}]

RECURSIVE FilledWith(_, _)
\* Node x after emplace_node for the ids of the sequence, none of which
\* meets a full array in the middle.
FilledWith(x, ids) ==
  IF ids = <<>> THEN x
  ELSE LET e == emplace_node(x, Head(ids), [crash |-> TRUE, id |-> NilId])
       IN FilledWith(CHOOSE y \in {e.node} : TRUE, Tail(ids))

\* A root whose array of block_size children is full.
WideRoot == FilledWith(new_multipath(1), [i \in 1..block_size |-> 10 + i])

\* The calls are made on the root and on nodes found by going to one of
\* the first MaxFan children, again and again.
MaxFan == 2

RECURSIVE Positions(_)
\* Those nodes of the tree under x, each as the child indices that lead to
\* it.
Positions(x) ==
  {<<>>} \cup UNION {{<<i>> \o w : w \in Positions(x.nodes[i])} :
                      i \in DOMAIN x.nodes \cap 1..MaxFan}

RECURSIVE node_at(_, _)
node_at(x, where) ==
  IF where = <<>> THEN x ELSE node_at(x.nodes[Head(where)], Tail(where))

RECURSIVE with_node(_, _, _)
\* The tree under x with the node at where replaced by y.
with_node(x, where, y) ==
  IF where = <<>> THEN y
  ELSE [x EXCEPT !.nodes[Head(where)] = with_node(@, Tail(where), y)]

RECURSIVE AnyFull(_)
\* Some node under x has children in an array that is full.
AnyFull(x) ==
  \/ (x.nodes # <<>> /\ grows(x))
  \/ \E i \in DOMAIN x.nodes : AnyFull(x.nodes[i])

\* Without a full array no call can use a freed one.
Outcomes(x) ==
  IF AnyFull(x) THEN UbOutcomes ELSE {[crash |-> TRUE, id |-> NilId]}

InitMultipath ==
  /\ peers = EmptyMap
  /\ chan = EmptyMap
  /\ sent = <<>>
  /\ shipped = <<>>
  /\ last = NoCall
  /\ obs = <<>>
  /\ pol = <<>>
  /\ \E root \in {new_multipath(1), from_linear(<<1, 2>>),
                   from_linear(<<1, 2, 3>>), WideRoot} :
       mp = [root |-> root, alive |-> TRUE, calls |-> 0]

\* Call op with inputs inp on the node at where returned r.
MultipathRan(op, inp, where, r, flag) ==
  /\ mp.alive
  /\ mp.calls < MaxCalls
  /\ mp' = [root |-> with_node(mp.root, where, r.node),
            alive |-> r.fault # "crash",
            calls |-> mp.calls + 1]
  /\ last' = [op |-> op, inp |-> inp, pre |-> mp.root, accepted |-> flag,
              before |-> NoBrief, where |-> where, fault |-> r.fault]
  /\ UNCHANGED <<peers, chan, sent, shipped, obs, pol>>

EmplaceNode ==
  \E where \in Positions(mp.root), id \in EmplaceIds :
    \E ub \in Outcomes(node_at(mp.root, where)) :
      \E r \in {emplace_node(node_at(mp.root, where), id, ub)} :
        MultipathRan("emplace_node", [id |-> id, at |-> r.at], where, r,
                     r.inserted)

Splice ==
  \E where \in Positions(mp.root), q \in LinearPaths :
    \E ub \in Outcomes(node_at(mp.root, where)) :
      \E r \in {splice(node_at(mp.root, where), q, ub)} :
        MultipathRan("splice", [q |-> q], where, r, r.result)

\* The multipath is saved to a buffer and a copy is loaded from the buffer.
RoundTrip ==
  /\ mp.alive
  /\ mp.calls < MaxCalls
  /\ \E ub \in UbOutcomes :
       \E buf \in {serialize(mp.root)} :
         \E r \in {deserialize(buf, ub)} :
           /\ mp' = [mp EXCEPT !.alive = r.fault # "crash",
                               !.calls = @ + 1]
           /\ last' = [op |-> "round_trip",
                       inp |-> [buf |-> buf, copy |-> r.node],
                       pre |-> mp.root, accepted |-> r.next = Len(buf) + 1,
                       before |-> NoBrief, where |-> <<>>,
                       fault |-> r.fault]
  /\ UNCHANGED <<peers, chan, sent, shipped, obs, pol>>

NextMultipath ==
  \/ EmplaceNode
  \/ Splice
  \/ RoundTrip

SpecMultipath == InitMultipath /\ [][NextMultipath]_vars

-----------------------------------------------------------------------------
(* Properties of the multipath *)

RECURSIVE Sorted(_)
\* The children of every node under x are strictly increasing by id.
Sorted(x) ==
  /\ \A i \in 1..(Len(x.nodes) - 1) : x.nodes[i].id < x.nodes[i + 1].id
  /\ \A i \in DOMAIN x.nodes : Sorted(x.nodes[i])

\* C22: in a multipath made from an id or a linear path by emplace_node and
\* splice calls on its nodes, the children of every node are strictly
\* increasing by id.
C22_ChildrenSorted == (mp # <<>> /\ mp.alive) => Sorted(mp.root)

\* The last call was a splice of a path that starts with the id of the node
\* it was made on.
SplicedIn ==
  /\ last.op = "splice"
  /\ last.inp.q # <<>>
  /\ last.inp.q[1] = node_at(last.pre, last.where).id

\* C23: after splice(q) on a node whose id is the first element of q (and
\* with the process still running), a second splice(q) on the node returns
\* true and leaves a tree equal to the one the first splice left; and from_linear(q).splice(q) equals
\* from_linear(q) for every non-empty q.
C23_SpliceIdempotent ==
  /\ (SplicedIn /\ mp.alive) =>
       /\ last.accepted
       /\ \A ub \in UbOutcomes :
            LET x == node_at(mp.root, last.where)
                again == splice(x, last.inp.q, ub)
            IN /\ again.result
               /\ again.fault = "none"
               /\ equals(again.node, x)
  /\ mp # <<>> =>
       \A q \in LinearPaths \ {<<>>}, ub \in UbOutcomes :
         LET again == splice(from_linear(q), q, ub)
         IN again.result /\ equals(again.node, from_linear(q))

\* C24: splice of the empty path returns true, splice of a path whose first
\* element is not the id of the node returns false, and both leave the
\* whole tree as it was.
C24_SpliceRejects ==
  ( /\ last.op = "splice"
    /\ ~SplicedIn )
  => /\ last.accepted <=> last.inp.q = <<>>
     /\ mp.alive
     /\ last.fault = "none"
     /\ mp.root = last.pre
     /\ equals(mp.root, last.pre)

\* The path [2, 1] was spliced into a root with id 1 that has a child 2 with
\* a child of its own: refused.
C24_Witness ==
  /\ last.op = "splice"
  /\ last.inp.q = <<2, 1>>
  /\ last.where = <<>>
  /\ ~last.accepted
  /\ \E i \in DOMAIN mp.root.nodes :
       mp.root.nodes[i].id = 2 /\ mp.root.nodes[i].nodes # <<>>

\* The empty path was spliced into a child of the root: accepted.
C24_WitnessEmpty ==
  /\ last.op = "splice"
  /\ last.inp.q = <<>>
  /\ last.where # <<>>
  /\ last.accepted

RECURSIVE Paths(_)
\* The id sequences that lead from node x to the nodes under it, x included.
Paths(x) ==
  {<<x.id>>} \cup UNION {{<<x.id>> \o w : w \in Paths(x.nodes[i])} :
                          i \in DOMAIN x.nodes}

\* The non-empty prefixes of q.
Prefixes(q) == {SubSeq(q, 1, n) : n \in 1..Len(q)}

\* C25: after splice(q) on a node whose id is the first element of q (and
\* with the process still running), the id sequences of the tree under the
\* node are those it had before and the non-empty prefixes of q, no two
\* nodes have the same id sequence, and the tree around the node is as it
\* was.
C25_SpliceAddsPrefixes ==
  (SplicedIn /\ mp.alive)
  => /\ last.accepted
     /\ Paths(node_at(mp.root, last.where))
          = Paths(node_at(last.pre, last.where)) \cup Prefixes(last.inp.q)
     /\ Sorted(node_at(mp.root, last.where))
     /\ mp.root = with_node(last.pre, last.where,
                            node_at(mp.root, last.where))

\* The tree 1(2(3, 4), 5(6(7))) of the example, made by splices.
ExampleTree ==
  [id |-> 1, reserved |-> block_size,
   nodes |-> << [id |-> 2, reserved |-> block_size,
                 nodes |-> <<new_multipath(3), new_multipath(4)>>],
                [id |-> 5, reserved |-> block_size,
                 nodes |-> << [id |-> 6, reserved |-> block_size,
                               nodes |-> <<new_multipath(7)>>] >>] >>]

C25_ExampleReached ==
  /\ SplicedIn
  /\ mp.alive
  /\ equals(mp.root, ExampleTree)

Without(s, i) == SubSeq(s, 1, i - 1) \o SubSeq(s, i + 1, Len(s))

\* The node the last call was made on, before and after the call.
NodeBefore == node_at(last.pre, last.where)

NodeAfter == node_at(mp.root, last.where)

\* emplace_node returned the child at last.inp.at, which has the id asked
\* for, and the tree is as it was.
EmplaceFound ==
  /\ ~last.accepted
  /\ mp.root = last.pre
  /\ last.inp.at \in DOMAIN NodeAfter.nodes
  /\ NodeAfter.nodes[last.inp.at].id = last.inp.id

\* emplace_node returned a new childless child at last.inp.at, its sorted
\* position, and every other child and the tree around the node are as
\* they were.
EmplaceInserted ==
  /\ last.accepted
  /\ last.inp.at \in DOMAIN NodeAfter.nodes
  /\ NodeAfter.nodes[last.inp.at].id = last.inp.id
  /\ NodeAfter.nodes[last.inp.at].nodes = <<>>
  /\ \A i \in DOMAIN NodeAfter.nodes :
       /\ i < last.inp.at => NodeAfter.nodes[i].id < last.inp.id
       /\ i > last.inp.at => NodeAfter.nodes[i].id > last.inp.id
  /\ Without(NodeAfter.nodes, last.inp.at) = NodeBefore.nodes
  /\ NodeAfter.id = NodeBefore.id
  /\ mp.root = with_node(last.pre, last.where, NodeAfter)

\* C27: after emplace_node(id) on a node (and with the process still
\* running): when the node had a child with the id, that child is returned
\* with flag false and the tree is unchanged; otherwise a new childless
\* child with the id is at its sorted position and is returned with flag
\* true, and every child the node had keeps its id and its subtree.
C27_EmplaceNodeFrame ==
  (last.op = "emplace_node" /\ mp.alive)
  => IF \E i \in DOMAIN NodeBefore.nodes :
          NodeBefore.nodes[i].id = last.inp.id
     THEN EmplaceFound
     ELSE EmplaceInserted

\* The distances recorded for the target in the entries of the table.
RecordedFor(tbl, target) ==
  {tbl[k].distances[target] :
     k \in {n \in DOMAIN tbl : target \in DOMAIN tbl[n].distances}}

\* C28: distance_to(target) returns 1 exactly when target is a key of tbl;
\* otherwise it returns the least distance recorded for target in the
\* distances maps of the entries, and unreachable exactly when no entry
\* records one; the peer is as it was.
C28_DistanceTo ==
  last.op = "distance_to"
  => LET tbl == last.pre.tbl
         target == last.inp.target
         found == RecordedFor(tbl, target)
     IN /\ obs = 1 <=> target \in DOMAIN tbl
        /\ target \notin DOMAIN tbl /\ found # {}
             => /\ obs \in found
                /\ \A d \in found : obs <= d
        /\ obs = Unreachable <=> (target \notin DOMAIN tbl /\ found = {})
        /\ peers[Self] = last.pre

\* Target 4 is no neighbor; the entry of neighbor 1 records distance 3 for
\* it and the entry of neighbor 3 records distance 2: the answer is 2.
C28_Witness ==
  /\ last.op = "distance_to"
  /\ last.inp.target = 4
  /\ RecordedFor(last.pre.tbl, 4) = {2, 3}
  /\ last.pre.tbl[1].distances[4] = 3
  /\ obs = 2

\* Target 1 was a neighbor and has been removed; the entry of neighbor 3
\* still records distance 2 for it.
C28_WitnessRemoved ==
  /\ last.op = "distance_to"
  /\ last.inp.target = 1
  /\ 1 \notin DOMAIN last.pre.tbl
  /\ obs = 2

\* Nothing is known of target 6.
C28_WitnessUnreachable ==
  /\ last.op = "distance_to"
  /\ last.inp.target = 6
  /\ last.pre.tbl # EmptyMap
  /\ obs = Unreachable

\* The local filter with the topics of what that are not internal.
Extended(f, what) == f \cup {t \in what : t = <<>> \/ t[1] # "<$>"}

\* The messages of sent that go to handle hdl.
SentTo(hdl) == {i \in DOMAIN sent : sent[i].to = hdl}

\* Every message of sent is the SUBSCRIBE of Self with filter f and
\* timestamp ts.
AllAnnounce(f, ts) ==
  \A i \in DOMAIN sent :
    /\ sent[i].type = "subscribe"
    /\ sent[i].path = Vec(<<Self>>)
    /\ sent[i].filter = f
    /\ sent[i].ts = ts

OnePerNeighbor(tbl) ==
  /\ \A n \in DOMAIN tbl : Cardinality(SentTo(tbl[n].hdl)) = 1
  /\ Len(sent) = Cardinality(DOMAIN tbl)

SubscribeEffect ==
  LET pre == last.pre
      f == Extended(pre.filter, last.inp.what)
  IN IF f = pre.filter
     THEN /\ ~last.accepted
          /\ peers[Self] = pre
          /\ sent = <<>>
     ELSE /\ last.accepted
          /\ peers[Self] = [pre EXCEPT !.filter = f, !.timestamp = @ + 1]
          /\ AllAnnounce(f, pre.timestamp + 1)
          /\ OnePerNeighbor(pre.tbl)

\* The timestamp of Self never goes down, and a SUBSCRIBE that starts at
\* Self carries a timestamp above every one used before.
OriginStampsIncrease ==
  /\ peers'[Self].timestamp >= peers[Self].timestamp
  /\ \A i \in DOMAIN sent' :
       (sent'[i].type = "subscribe" /\ front(sent'[i].path) = Self)
       => /\ sent'[i].ts = peers'[Self].timestamp
          /\ sent'[i].ts > peers[Self].timestamp

\* C29: subscribe(what) leaves the peer alone and sends nothing when the
\* filter extended by the topics of what that are not internal is the
\* filter; otherwise the timestamp goes up by exactly 1 and each direct
\* neighbor is sent exactly one SUBSCRIBE with path [Self], the whole new
\* filter and the new timestamp, so that the timestamps Self sends as
\* origin are strictly increasing.
C29_Subscribe ==
  /\ [](last.op = "subscribe" => SubscribeEffect)
  /\ [][OriginStampsIncrease]_vars

\* The second subscription of a peer with two neighbors that changed the
\* filter: it added to a filter that was not empty, left an internal topic
\* out, and sent two updates with timestamp 2.
C29_Witness ==
  /\ last.op = "subscribe"
  /\ last.accepted
  /\ last.pre.timestamp = 1
  /\ last.inp.what = Fa \cup {InternalTopic}
  /\ peers[Self].filter = Fa \cup Fb
  /\ DOMAIN last.pre.tbl = Neighbors
  /\ Len(sent) = 2

\* Only an internal topic was asked for: nothing happened.
C29_WitnessInternal ==
  /\ last.op = "subscribe"
  /\ last.inp.what = {InternalTopic}
  /\ ~last.accepted
  /\ last.pre.tbl # EmptyMap
  /\ sent = <<>>

\* Some topic of the filter is a prefix of topic t.
PrefixMatch(filter, t) ==
  \E x \in filter : \E n \in 0..Len(t) : x = SubSeq(t, 1, n)

\* The receivers of the last publish are the peers whose stored filter
\* matches the topic, each once.
ReceiversMatch ==
  /\ SeqRange(last.inp.receivers)
       = {x \in DOMAIN last.pre.peer_filters :
            PrefixMatch(last.pre.peer_filters[x], last.inp.content.topic)}
  /\ \A i, j \in DOMAIN last.inp.receivers :
       i # j => last.inp.receivers[i] # last.inp.receivers[j]

\* C30: publish(content) takes as receivers exactly the peers whose stored
\* filter prefix-matches the topic of the content; with none it sends
\* nothing; otherwise it hands ship one message with the content, these
\* receivers and the TTL of the peer, which is above 0, so that what is
\* sent is what ship sends for that message; the peer is as it was in both
\* cases.
C30_Publish ==
  last.op = "publish"
  => /\ ReceiversMatch
     /\ peers[Self] = last.pre
     /\ shipped = <<>>
     /\ IF last.inp.receivers = <<>>
        THEN sent = <<>> /\ ~last.accepted
        ELSE /\ last.accepted
             /\ last.pre.ttl > 0
             /\ sent = ship(last.pre, [content |-> last.inp.content,
                                       ttl |-> last.pre.ttl,
                                       receivers |-> last.inp.receivers])
             /\ \A i \in DOMAIN sent :
                  /\ sent[i].type = "publish"
                  /\ sent[i].ttl = last.pre.ttl
                  /\ sent[i].content = last.inp.content

\* A publication on a/x had two or more receivers and was sent with the
\* TTL 2 of the peer.
C30_Witness ==
  /\ last.op = "publish"
  /\ last.inp.content.topic = <<"a", "x">>
  /\ Len(last.inp.receivers) >= 2
  /\ last.pre.ttl = 2
  /\ sent # <<>>

\* A publication on b found no subscriber although filters are stored.
C30_WitnessNone ==
  /\ last.op = "publish"
  /\ last.inp.content.topic = <<"b">>
  /\ last.pre.peer_filters # EmptyMap
  /\ last.inp.receivers = <<>>
  /\ sent = <<>>

\* The path of the last update with the id of Self behind it.
ExtendedPath == Append(last.inp.path, <<Self, 1>>)

\* The direct neighbors that do not occur in the extended path.
ForwardTargets ==
  {n \in DOMAIN last.pre.tbl : \A i \in DOMAIN ExtendedPath :
                                  ExtendedPath[i][1] # n}

\* Every message sent is the update of the last call with the extended
\* path.
AllForwarded ==
  \A i \in DOMAIN sent :
    /\ sent[i].type = "subscribe"
    /\ sent[i].path = ExtendedPath
    /\ sent[i].filter = last.inp.filter
    /\ sent[i].ts = last.inp.ts

OncePerTarget ==
  /\ \A n \in ForwardTargets :
       Cardinality({i \in DOMAIN sent : sent[i].to = last.pre.tbl[n].hdl}) = 1
  /\ Len(sent) = Cardinality(ForwardTargets)

\* C31: an accepted filter update is sent on with the id of Self appended
\* to the path and with its filter and timestamp, once to each direct
\* neighbor that is not in the extended path and to no one else, whatever
\* the timestamp stored for the origin is; an update that is not accepted
\* is sent to no one.
C31_ForwardedOnce ==
  IsUpdate(last)
  => IF last.accepted
     THEN AllForwarded /\ OncePerTarget
     ELSE sent = <<>>

\* An update from origin 4 over neighbor 1 came with timestamp 1 when 2 was
\* stored for the origin: it went on to neighbor 3, and the stored filter
\* and timestamp stayed.
C31_Witness ==
  /\ IsUpdate(last)
  /\ last.accepted
  /\ last.inp.path = Vec(<<4, 1>>)
  /\ last.inp.ts = 1
  /\ StoredTs(last.pre, 4) = 2
  /\ StoredTs(peers[Self], 4) = 2
  /\ ForwardTargets = {3}
  /\ Len(sent) = 1

\* An update with both neighbors in its path was accepted and sent to no
\* one.
C31_WitnessNoTarget ==
  /\ IsUpdate(last)
  /\ last.accepted
  /\ DOMAIN last.pre.tbl = Neighbors
  /\ ForwardTargets = {}
  /\ sent = <<>>

\* The 16-bit TTL after --ttl.
Decremented(ttl) == (ttl + U16Max) % (U16Max + 1)

\* The topic ends with the segments of the clone suffix.
IsCloneTopic(t) ==
  \E n \in 1..Len(t) : SubSeq(t, n, Len(t)) = <<"data", "clone">>

\* The node message has a local path to go to in policy state c.
HasLocalPath(c, m) ==
  IF m.content.kind = "data" THEN c.num_workers > 0 ELSE c.num_stores > 0

\* The node message is to be forwarded in policy state c.
ToForward(c, m) ==
  /\ c.forward
  /\ ~IsCloneTopic(m.content.topic)
  /\ Decremented(m.ttl) # 0

\* What the batch of the last call delivers locally and what it pushes to
\* the peers manager, in the order of the batch.
LocalOfBatch ==
  LET kept == SelectSeq(last.inp.batch,
                        LAMBDA m : HasLocalPath(last.pre, m))
  IN [i \in DOMAIN kept |->
        [to |-> IF kept[i].content.kind = "data" THEN "workers" ELSE "stores",
         content |-> kept[i].content]]

PushedOfBatch ==
  LET kept == SelectSeq(last.inp.batch, LAMBDA m : ToForward(last.pre, m))
  IN [i \in DOMAIN kept |-> [kept[i] EXCEPT !.ttl = Decremented(@)]]

\* C32: a peer batch from a sender that is not blocked: each node message
\* goes to the workers (data) or the stores (command) when there is such a
\* path, whatever the forward option, the topic and the TTL are, and it is
\* pushed to the peers manager, with the decremented TTL, exactly when
\* forwarding is on, the topic does not end with the clone suffix and the
\* decremented TTL is not 0.
C32_PeerBatchDispatch ==
  ( /\ last.op = "handle_batch"
    /\ last.inp.peer \notin last.pre.blocked_peers )
  => /\ shipped = LocalOfBatch
     /\ obs.pushed = PushedOfBatch

\* Forwarding is on, there is a worker and no store: of a batch with a data
\* message with TTL 1 and a command with TTL 2 the data message went to the
\* workers only and the command to the peers only.
C32_Witness ==
  /\ last.op = "handle_batch"
  /\ last.inp.peer \notin last.pre.blocked_peers
  /\ last.pre.forward
  /\ last.pre.num_workers > 0
  /\ last.pre.num_stores = 0
  /\ Len(last.inp.batch) = 2
  /\ Len(shipped) = 1
  /\ shipped[1].to = "workers"
  /\ Len(obs.pushed) = 1
  /\ obs.pushed[1].content.kind = "command"
  /\ obs.pushed[1].ttl = 1

\* Forwarding is off: a clone command went to the stores and nothing was
\* pushed.
C32_WitnessNoForward ==
  /\ last.op = "handle_batch"
  /\ last.inp.peer \notin last.pre.blocked_peers
  /\ ~last.pre.forward
  /\ Len(shipped) = 1
  /\ shipped[1].to = "stores"
  /\ IsCloneTopic(shipped[1].content.topic)
  /\ obs.pushed = <<>>

\* The pairs of a neighbor n and a peer o with a distance recorded for o in
\* the entry of n.
DistanceKeys(tbl) ==
  UNION {{<<n, o>> : o \in DOMAIN tbl[n].distances} : n \in DOMAIN tbl}

\* C33 as stated: in every reachable state no key of a distances map of a
\* routing-table entry is a key of the routing table.
C33_DistancesIndirectOnly ==
  \A k \in DistanceKeys(peers[Self].tbl) : k[2] \notin DOMAIN peers[Self].tbl

\* C33 amended: in every reachable state a key of a distances map is never
\* the peer itself and its distance is 2 or more; it may be a direct
\* neighbor, recorded in the entry of another neighbor that passed its
\* update on, and distance_to still answers 1 for it.
C33_DistanceKeys ==
  \A k \in DistanceKeys(peers[Self].tbl) :
    /\ k[2] # Self
    /\ peers[Self].tbl[k[1]].distances[k[2]] >= 2
    /\ k[2] \in DOMAIN peers[Self].tbl
         => /\ k[1] # k[2]
            /\ distance_to(peers[Self].tbl, k[2]) = 1

\* Neighbors 1 and 3 are connected and the entry of 3 records distance 2
\* for neighbor 1, from the update of 1 that came over 3.
C33_Witness ==
  /\ DOMAIN peers[Self].tbl = Neighbors
  /\ 1 \in DOMAIN peers[Self].tbl[3].distances
  /\ peers[Self].tbl[3].distances[1] = 2
  /\ IsUpdate(last)
  /\ last.inp.path = Vec(<<1, 3>>)

\* Every recorded distance is between 2 and 65535 and is the least length
\* written down for its entry and origin; nothing else is recorded.
DistancesAreLeast ==
  LET tbl == peers[Self].tbl
  IN /\ DistanceKeys(tbl) = DOMAIN obs.least
     /\ \A k \in DistanceKeys(tbl) :
          /\ tbl[k[1]].distances[k[2]] = obs.least[k]
          /\ tbl[k[1]].distances[k[2]] >= 2
          /\ tbl[k[1]].distances[k[2]] <= U16Max

\* A distance recorded in an entry that stays is not replaced by a greater
\* one.
DistancesImprove ==
  \A k \in DistanceKeys(peers[Self].tbl) \cap DistanceKeys(peers'[Self].tbl) :
    peers'[Self].tbl[k[1]].distances[k[2]]
      <= peers[Self].tbl[k[1]].distances[k[2]]

\* C34: every value of a distances map is between 2 and 65535 and
\* tbl[n].distances[o] is the least length of the accepted updates with
\* origin o, last hop n and length above 1 since the entry of n was made;
\* a longer path never replaces a shorter recorded distance.
C34_DistancesMinimal ==
  /\ []DistancesAreLeast
  /\ [][DistancesImprove]_vars

\* The update of origin 4 over neighbor 1 came with length 3 when length 2
\* was recorded: 2 stayed.
C34_Witness ==
  /\ IsUpdate(last)
  /\ last.accepted
  /\ last.inp.path = Vec(<<4, 5, 1>>)
  /\ last.pre.tbl[1].distances = (4 :> 2)
  /\ peers[Self].tbl[1].distances[4] = 2

\* The longest path there can be was recorded with 65535 and then improved
\* to 3.
C34_WitnessImproved ==
  /\ IsUpdate(last)
  /\ last.accepted
  /\ last.inp.path = Vec(<<4, 5, 1>>)
  /\ last.pre.tbl[1].distances = (4 :> U16Max)
  /\ peers[Self].tbl[1].distances[4] = 3

\* The TTL of Self is the greatest length among the accepted updates.
TtlIsLongest == peers[Self].ttl = obs.longest

TtlKept == peers'[Self].ttl >= peers[Self].ttl

\* C35: the TTL of the peer is 0 at first, no step lowers it, peer_removed
\* included, and it always is the greatest path length among the filter
\* updates accepted so far, 0 when there are none.
C35_TtlIsPeak ==
  /\ peers[Self].ttl = 0
  /\ []TtlIsLongest
  /\ [][TtlKept]_vars

\* The only neighbor was removed after an update of length 3 and one of
\* length 2: the table is empty and the TTL still is 3.
C35_Witness ==
  /\ last.op = "peer_removed"
  /\ peers[Self].tbl = EmptyMap
  /\ last.pre.tbl # EmptyMap
  /\ obs.longest = 3
  /\ peers[Self].ttl = 3

\* An update of length 2 was accepted when the TTL was 65535.
C35_WitnessShorter ==
  /\ IsUpdate(last)
  /\ last.accepted
  /\ size(last.inp.path) = 2
  /\ last.pre.ttl = U16Max
  /\ peers[Self].ttl = U16Max

\* C36: ship(data_message, r) sends what ship(node_message) sends for the
\* message with the content, the TTL of the peer and the receivers [r]: one
\* copy with these receivers and this TTL, to r when r is a direct
\* neighbor, else to the neighbor with the least recorded distance to r (the
\* lowest id on a tie), and nothing when no entry knows r; the peer is as it
\* was.
C36_DirectShipEquivalence ==
  last.op = "ship_data"
  => LET tbl == last.pre.tbl
         r == last.inp.receiver
         msg == [content |-> last.inp.content, ttl |-> last.pre.ttl,
                 receivers |-> <<r>>]
     IN /\ sent = ship(last.pre, msg)
        /\ peers[Self] = last.pre
        /\ IF r \in DOMAIN tbl
           THEN sent = <<PublishMsg(tbl[r].hdl, msg)>>
           ELSE IF Knowing(tbl, r) # {}
           THEN sent = <<PublishMsg(tbl[FirstHop(tbl, r)].hdl, msg)>>
           ELSE sent = <<>>

\* Both neighbors record distance 2 for peer 4: the message went to 1.
C36_Witness ==
  /\ last.op = "ship_data"
  /\ last.inp.receiver = 4
  /\ Knowing(last.pre.tbl, 4) = {1, 3}
  /\ last.pre.tbl[1].distances[4] = last.pre.tbl[3].distances[4]
  /\ Len(sent) = 1
  /\ sent[1].to = 1
  /\ sent[1].receivers = <<4>>

\* Neighbor 3 records a shorter distance for peer 5 than neighbor 1 does.
C36_WitnessShorter ==
  /\ last.op = "ship_data"
  /\ last.inp.receiver = 5
  /\ Knowing(last.pre.tbl, 5) = {1, 3}
  /\ last.pre.tbl[3].distances[5] < last.pre.tbl[1].distances[5]
  /\ Len(sent) = 1
  /\ sent[1].to = 3

\* No entry knows peer 6: nothing was sent.
C36_WitnessUnreachable ==
  /\ last.op = "ship_data"
  /\ last.inp.receiver = 6
  /\ last.pre.tbl # EmptyMap
  /\ sent = <<>>

\* The peers the last call removed without grace: the peer of a remove_peer
\* call with graceful_removal = false, or the peer of the path a close, a
\* drop or a failed open was reported for, when the peer had a path.
LostByLast ==
  LET c == last.pre
      named ==
        IF last.op = "remove_peer"
        THEN IF last.inp.graceful_removal THEN {} ELSE {last.inp.peer}
        ELSE IF last.op = "path_closed"
        THEN {c.ipath_to_peer[s] : s \in DOMAIN c.ipath_to_peer
                                          \cap {last.inp.slot}}
        ELSE IF last.op \in {"path_dropped", "ack_open_failure"}
        THEN {c.opath_to_peer[s] : s \in DOMAIN c.opath_to_peer
                                          \cap {last.inp.slot}}
        ELSE {}
  IN {h \in named : h \in DOMAIN c.peer_to_opath \cup DOMAIN c.peer_to_ipath}

\* The cache of policy state c asks for a reconnect to peer h.
WantsRetry(c, h) ==
  /\ ~c.shutting_down
  /\ h \in DOMAIN c.cache
  /\ c.cache[h] # 0

RetryFor(h) ==
  IF WantsRetry(last.pre, h)
  THEN obs.retry = <<[peer |-> h, after |-> last.pre.cache[h]]>>
  ELSE obs.retry = <<>>

\* C37: when a call removes a peer without grace (remove_peer with
\* graceful_removal = false, a closed or dropped path, a failed open), a
\* reconnect is scheduled exactly when the task is not shutting down and
\* the cache, as it was before the call, holds the peer with a retry
\* interval that is not 0; the cache does not hold the peer afterwards; no
\* other call schedules a reconnect, a graceful removal included.
C37_ReconnectScheduling ==
  last.op # "none"
  => /\ \A h \in LostByLast : RetryFor(h) /\ h \notin DOMAIN pol.cache
     /\ LostByLast = {} => obs.retry = <<>>

\* The outbound path of peer 3 was dropped while the cache held 3 with a
\* retry interval: the reconnect is scheduled with that interval and the
\* cache entry is gone.
C37_Witness ==
  /\ last.op = "path_dropped"
  /\ LostByLast = {3}
  /\ 3 \in DOMAIN last.pre.cache
  /\ last.pre.cache[3] = RetrySecs
  /\ obs.retry = <<[peer |-> 3, after |-> RetrySecs]>>
  /\ 3 \notin DOMAIN pol.cache

\* Peer 3 was lost while the task was shutting down: no reconnect.
C37_WitnessShuttingDown ==
  /\ last.op \in {"path_closed", "remove_peer", "ack_open_failure"}
  /\ LostByLast = {3}
  /\ last.pre.shutting_down
  /\ 3 \in DOMAIN last.pre.cache
  /\ obs.retry = <<>>

\* Peer 3 was removed with grace while the cache held it with a retry
\* interval: no reconnect.
C37_WitnessGraceful ==
  /\ last.op = "remove_peer"
  /\ last.inp.graceful_removal
  /\ last.inp.peer = 3
  /\ 3 \in DOMAIN last.pre.peer_to_opath
  /\ WantsRetry(last.pre, 3)
  /\ obs.status # <<>>
  /\ obs.retry = <<>>

\* C38: an accepted filter update with a timestamp of 1 or more from an
\* origin that has no stored filter (peer_removed erased it, or there never
\* was one) leaves the filter of the update stored for the origin, whatever
\* timestamp was accepted from the origin before.
C38_FilterRegained ==
  ( /\ IsUpdate(last)
    /\ last.accepted
    /\ last.inp.ts >= 1
    /\ front(last.inp.path) \notin DOMAIN last.pre.peer_filters )
  => /\ front(last.inp.path) \in DOMAIN peers[Self].peer_filters
     /\ peers[Self].peer_filters[front(last.inp.path)] = last.inp.filter

\* C39: whenever peer_filters has an entry the TTL of the peer is at least
\* 1, and every call of publish that finds a receiver, and so reaches the
\* assertion ttl_ > 0, finds it true.
C39_PublishAssertion ==
  /\ DOMAIN peers[Self].peer_filters # {} => peers[Self].ttl >= 1
  /\ (last.op = "publish" /\ last.accepted) => last.pre.ttl > 0

\* publish found a receiver and passed the assertion.
C39_Witness ==
  /\ last.op = "publish"
  /\ last.accepted
  /\ last.inp.receivers # <<>>
  /\ last.pre.ttl > 0

\* A filter is still stored after a neighbor was removed.
C39_WitnessAfterRemoval ==
  /\ last.op = "peer_removed"
  /\ last.inp.id \in DOMAIN last.pre.tbl
  /\ DOMAIN peers[Self].peer_filters # {}
  /\ peers[Self].ttl >= 1

\* Maps to and from are inverse to each other: each key of one is the value
\* the other holds for its value.
MutuallyInverse(to, from) ==
  /\ \A k \in DOMAIN to : to[k] \in DOMAIN from /\ from[to[k]] = k
  /\ \A k \in DOMAIN from : from[k] \in DOMAIN to /\ to[from[k]] = k

\* The last call was remove_peer for a peer without any path.
RemovedUnknown ==
  /\ last.op = "remove_peer"
  /\ last.inp.peer \notin DOMAIN last.pre.peer_to_opath
  /\ last.inp.peer \notin DOMAIN last.pre.peer_to_ipath

\* C40: in every state peer_to_ipath and ipath_to_peer are inverse to each
\* other, and so are peer_to_opath and opath_to_peer; remove_peer for a
\* peer without any path returns false, emits no status, schedules no
\* reconnect, pushes nothing and leaves the state of the policy as it was.
C40_PathMapsInverse ==
  /\ MutuallyInverse(pol.peer_to_ipath, pol.ipath_to_peer)
  /\ MutuallyInverse(pol.peer_to_opath, pol.opath_to_peer)
  /\ RemovedUnknown
     => /\ ~last.accepted
        /\ obs.status = <<>>
        /\ obs.retry = <<>>
        /\ obs.pushed = <<>>
        /\ sent = <<>>
        /\ pol = last.pre

====
